---- MODULE Spec2Model ----
(***************************************************************************)
(* Model of the TurboDocx Python SDK (packages/py-sdk): the class-level    *)
(* module configuration (TurboTemplate, TurboSign, TurboPartner), the      *)
(* generate-request assembler, the variable validator and the transport    *)
(* calls they make.                                                        *)
(*                                                                         *)
(* Python values are tagged records [ty, v] whose payload v is a string,   *)
(* so that None, "", 0, False, [] and {} stay distinct values with the     *)
(* truthiness Python gives them.  A Python dict is a function whose DOMAIN *)
(* is the set of keys it carries: an absent key and a key mapped to None   *)
(* are different dicts.                                                    *)
(***************************************************************************)
EXTENDS Integers, Sequences, FiniteSets, TLC

VARIABLES
    environ,        \* os.environ: the TURBODOCX_* variables of the process
    tplClient,      \* TurboTemplate._client
    signClient,     \* TurboSign._client
    partnerClient,  \* TurboPartner._client
    partnerId,      \* TurboPartner._partner_id
    op,             \* the operation that has just run, "idle" between two operations
    arg,            \* its argument
    calls,          \* the transport calls it made, in order, each with its result
    outcome,        \* what its caller received
    threads         \* concurrent callers of TurboPartner: where each one is, and its locals

vars == <<environ, tplClient, signClient, partnerClient, partnerId, op, arg, calls, outcome, threads>>

(***************************************************************************)
(* Python values                                                           *)
(***************************************************************************)
PyNone == [ty |-> "NoneType", v |-> ""]

PyStr(s) == [ty |-> "str", v |-> s]

PyInt(s) == [ty |-> "int", v |-> s]

PyBool(b) == [ty |-> "bool", v |-> IF b THEN "True" ELSE "False"]

PyList(s) == [ty |-> "list", v |-> s]

PyDict(s) == [ty |-> "dict", v |-> s]

\* bool(x): None, "", 0, False, [] and {} are falsy
Truthy(x) ==
    CASE x.ty = "NoneType" -> FALSE
      [] x.ty = "int"      -> x.v # "0"
      [] x.ty = "bool"     -> x.v = "True"
      [] OTHER             -> x.v # ""

\* a or b
PyOr(a, b) == IF Truthy(a) THEN a ELSE b

\* d.get(k)
Get(d, k) == IF k \in DOMAIN d THEN d[k] ELSE PyNone

\* d.get(k, default)
GetDefault(d, k, default) == IF k \in DOMAIN d THEN d[k] ELSE default

\* the same statement written as `if src.get(k) is not None`, which drops an
\* explicit None
CopyIfNotNone(dst, src, k) ==
    IF k \in DOMAIN src /\ src[k] # PyNone THEN (k :> src[k]) @@ dst ELSE dst

\* the statement `if k in src: dst[k] = src[k]`
CopyIfPresent(dst, src, k) == IF k \in DOMAIN src THEN (k :> src[k]) @@ dst ELSE dst

EmptyDict == [k \in {} |-> PyNone]

(***************************************************************************)
(* What an operation's caller receives                                     *)
(***************************************************************************)
Returned(val) == [kind |-> "ok", err |-> "", about |-> PyNone, value |-> val]

Raised(cls, what) == [kind |-> "error", err |-> cls, about |-> what, value |-> PyNone]

NoOutcome == [kind |-> "none", err |-> "", about |-> PyNone, value |-> PyNone]

(***************************************************************************)
(* http.py: the transport                                                  *)
(***************************************************************************)
\* a byte is written as its ASCII character, or as two hex digits when it
\* is not ASCII: C3 A9 is a two-byte UTF-8 sequence, FF is never valid
LeadByte == "C3"

ContinuationByte == "A9"

InvalidByte == "FF"

NonAsciiBytes == {LeadByte, ContinuationByte, InvalidByte}

\* a slice that takes the byte at its upper index as well
Slice_Inclusive(bytes, i, j) == SubSeq(bytes, i + 1, IF j + 1 < Len(bytes) THEN j + 1 ELSE Len(bytes))

\* file_bytes[i:j], which never fails: it is cut to the bytes that exist
Slice(bytes, i, j) == SubSeq(bytes, i + 1, IF j < Len(bytes) THEN j ELSE Len(bytes))

\* bytes.decode('utf-8', errors='ignore'): an ASCII byte is its character, a
\* complete two-byte sequence is one character, every other byte is dropped
Utf8DecodeIgnore(bytes) ==
    LET indexed == [i \in 1..Len(bytes) |-> <<i, bytes[i]>>]
        startsCharacter(e) ==
            \/ e[2] \notin NonAsciiBytes
            \/ (e[2] = LeadByte /\ e[1] < Len(bytes) /\ bytes[e[1] + 1] = ContinuationByte)
        kept == SelectSeq(indexed, startsCharacter)
    IN  [i \in 1..Len(kept) |-> IF kept[i][2] = LeadByte THEN "U+00E9" ELSE kept[i][2]]

\* `marker in text`
InText(marker, text) ==
    \E i \in 1..(Len(text) - Len(marker) + 1) : SubSeq(text, i, i + Len(marker) - 1) = marker

\* the number of leading bytes detect_file_type searches for the markers
HeaderLimit == 2000

OctetStream == <<"application/octet-stream", "bin">>

Pdf == <<"application/pdf", "pdf">>

Pptx == <<"application/vnd.openxmlformats-officedocument.presentationml.presentation", "pptx">>

Docx == <<"application/vnd.openxmlformats-officedocument.wordprocessingml.document", "docx">>

\* the archive branch with the two searches in the other order
ZipKind_WordFirst(header_str) ==
    IF InText(<<"w", "o", "r", "d", "/">>, header_str) THEN Docx
    ELSE IF InText(<<"p", "p", "t", "/">>, header_str) THEN Pptx
    ELSE Docx

\* the branch for a buffer that starts with PK: 'ppt/' is searched first,
\* 'word/' second, and an archive with neither is taken for a document
ZipKind(header_str) ==
    IF InText(<<"p", "p", "t", "/">>, header_str) THEN Pptx
    ELSE IF InText(<<"w", "o", "r", "d", "/">>, header_str) THEN Docx
    ELSE Docx

\* detect_file_type with the magic numbers compared before the length
detect_file_type_MagicFirst(file_bytes) ==
    LET header == Slice(file_bytes, 0, HeaderLimit)
    IN  IF Slice(file_bytes, 0, 4) = <<"%", "P", "D", "F">> THEN Pdf
        ELSE IF Slice(file_bytes, 0, 2) = <<"P", "K">> THEN ZipKind(Utf8DecodeIgnore(header))
        ELSE OctetStream

\* detect_file_type
detect_file_type(file_bytes) ==
    LET header == Slice(file_bytes, 0, IF Len(file_bytes) < HeaderLimit
                                       THEN Len(file_bytes) ELSE HeaderLimit)
    IN  IF Len(file_bytes) < 4 THEN OctetStream
        ELSE IF Slice(file_bytes, 0, 4) = <<"%", "P", "D", "F">> THEN Pdf
        ELSE IF Slice(file_bytes, 0, 2) = <<"P", "K">> THEN ZipKind(Utf8DecodeIgnore(header))
        ELSE OctetStream

DefaultBaseUrl == PyStr("https://api.turbodocx.com")

NoClient ==
    [kind |-> "None", api_key |-> PyNone, access_token |-> PyNone, base_url |-> PyNone,
     org_id |-> PyNone, sender_email |-> PyNone, sender_name |-> PyNone, mock |-> ""]

\* HttpClient.__init__: arguments first, then the environment; the three
\* checks in order.  The result says whether an object was constructed.
HttpClient_init(env, a) ==
    LET api_key      == PyOr(a.api_key, Get(env, "TURBODOCX_API_KEY"))
        access_token == a.access_token
        base_url     == PyOr(a.base_url, GetDefault(env, "TURBODOCX_BASE_URL", DefaultBaseUrl))
        org_id       == PyOr(a.org_id, Get(env, "TURBODOCX_ORG_ID"))
        sender_email == PyOr(a.sender_email, Get(env, "TURBODOCX_SENDER_EMAIL"))
        sender_name  == PyOr(a.sender_name, Get(env, "TURBODOCX_SENDER_NAME"))
        self == [kind |-> "HttpClient", api_key |-> api_key, access_token |-> access_token,
                 base_url |-> base_url, org_id |-> org_id, sender_email |-> sender_email,
                 sender_name |-> sender_name, mock |-> ""]
    IN  IF ~Truthy(api_key) /\ ~Truthy(access_token)
        THEN [ok |-> FALSE, client |-> NoClient,
              error |-> Raised("AuthenticationError", PyStr("API key or access token is required"))]
        ELSE IF ~Truthy(org_id)
        THEN [ok |-> FALSE, client |-> NoClient,
              error |-> Raised("AuthenticationError", PyStr("Organization ID (org_id) is required for authentication"))]
        ELSE IF ~Truthy(sender_email)
        THEN [ok |-> FALSE, client |-> NoClient,
              error |-> Raised("ValidationError", PyStr("sender_email is required"))]
        ELSE [ok |-> TRUE, client |-> self, error |-> NoOutcome]

\* HttpClient._handle_error_response: the error class of a status
handle_error_response(status) ==
    CASE status = "400" -> Raised("ValidationError", PyInt(status))
      [] status = "401" -> Raised("AuthenticationError", PyInt(status))
      [] status = "404" -> Raised("NotFoundError", PyInt(status))
      [] status = "429" -> Raised("RateLimitError", PyInt(status))
      [] OTHER          -> Raised("TurboDocxError", PyInt(status))

\* What the network does to one request: a response with a status (JSON body
\* or not), or no response at all.
NetBehaviours ==
    {"200", "200-empty", "200-not-json", "400", "401", "404", "429", "500", "timeout", "unreachable"}

HttpResponse == PyDict("deliverable")

\* the JSON object {} of a response without content
EmptyResponse == PyDict("")

\* response.json() passed through _smart_unwrap, which leaves an object
\* alone unless "data" is its only key
ResponseJson(net) == IF net = "200-empty" THEN EmptyResponse ELSE HttpResponse

\* The keyword parameters of HttpClient.post(self, path, data=None)
HttpClient_post_params == {"data"}

\* HttpClient.post called as client.post(path, <kw>=body): a keyword the
\* signature does not have fails the call before the method body runs.
HttpClient_post(kw, net) ==
    IF kw \notin HttpClient_post_params
    THEN Raised("TypeError", PyStr("post() got an unexpected keyword argument"))
    ELSE CASE net = "timeout"      -> Raised("NetworkError", PyStr("Request timed out after 120 seconds"))
           [] net = "unreachable"  -> Raised("NetworkError", PyStr("Network request failed"))
           [] net = "200-not-json" -> Raised("NetworkError", PyStr("Request failed"))
           [] net \in {"200", "200-empty"} -> Returned(ResponseJson(net))
           [] OTHER                -> handle_error_response(net)

\* HttpClient.patch: as post
HttpClient_patch(kw, net) == HttpClient_post(kw, net)

ResponseBytes == [ty |-> "bytes", v |-> "content"]

\* HttpClient.get: a successful response that is not JSON is returned as bytes
HttpClient_get(net) ==
    CASE net = "timeout"      -> Raised("NetworkError", PyStr("Request timed out after 60 seconds"))
      [] net = "unreachable"  -> Raised("NetworkError", PyStr("Network request failed"))
      [] net = "200-not-json" -> Returned(ResponseBytes)
      [] net \in {"200", "200-empty"} -> Returned(ResponseJson(net))
      [] OTHER                -> handle_error_response(net)

\* HttpClient.delete: as get
HttpClient_delete(net) == HttpClient_get(net)

\* HttpClient.upload_file: its only handlers are for httpx errors and for
\* Exception, so every failure inside the try block leaves as NetworkError
HttpClient_upload_file(net) ==
    IF net \in {"200", "200-empty"} THEN Returned(ResponseJson(net))
    ELSE Raised("NetworkError", PyStr("File upload failed"))

\* the file part of a call: none but for upload_file
NoFile == [name |-> PyNone, content |-> PyNone]

\* one call on a client: the client object it was made on, how it was made,
\* what the network did to the request it sent ("none" when it sent none),
\* and what it returned or raised
Call(client, method, path, kw, body, file, net, result) ==
    [client |-> client, method |-> method, path |-> path, kw |-> kw, body |-> body,
     file |-> file, net |-> net, result |-> result]

\* HttpClient.get_sender_config
get_sender_config(client) == [sender_email |-> client.sender_email, sender_name |-> client.sender_name]

NoPartnerClient ==
    [kind |-> "None", partner_api_key |-> PyNone, partner_id |-> PyNone, base_url |-> PyNone]

\* PartnerHttpClient.__init__
PartnerHttpClient_init(env, a) ==
    LET partner_api_key == PyOr(a.partner_api_key, Get(env, "TURBODOCX_PARTNER_API_KEY"))
        partner_id      == PyOr(a.partner_id, Get(env, "TURBODOCX_PARTNER_ID"))
        base_url        == PyOr(a.base_url, GetDefault(env, "TURBODOCX_BASE_URL", DefaultBaseUrl))
        self == [kind |-> "PartnerHttpClient", partner_api_key |-> partner_api_key,
                 partner_id |-> partner_id, base_url |-> base_url]
    IN  IF ~Truthy(partner_api_key)
        THEN [ok |-> FALSE, client |-> NoPartnerClient,
              error |-> Raised("AuthenticationError", PyStr("Partner API key is required"))]
        ELSE IF ~Truthy(partner_id)
        THEN [ok |-> FALSE, client |-> NoPartnerClient,
              error |-> Raised("AuthenticationError", PyStr("Partner ID is required"))]
        ELSE [ok |-> TRUE, client |-> self, error |-> NoOutcome]

\* PartnerHttpClient.get / post / patch / delete: get, post and patch parse
\* the response as JSON, delete returns a non-JSON response as bytes
PartnerHttpClient_request(method, net) ==
    CASE net = "timeout"      -> Raised("NetworkError", PyStr("Request timed out"))
      [] net = "unreachable"  -> Raised("NetworkError", PyStr("Network request failed"))
      [] net = "200-not-json" -> IF method = "delete" THEN Returned(ResponseBytes)
                                 ELSE Raised("NetworkError", PyStr("Request failed"))
      [] net \in {"200", "200-empty"} -> Returned(ResponseJson(net))
      [] OTHER                -> handle_error_response(net)

\* The client the tests put behind _get_client: MagicMock() whose post is
\* AsyncMock(return_value=...) or AsyncMock(side_effect=...).  It accepts
\* any keyword.
MockBehaviours == {"return_value", "side_effect"}

MockClient(behaviour) == [NoClient EXCEPT !.kind = "Mock", !.mock = behaviour]

MockResponse == PyDict("id:doc-123")

MockClient_post(client) ==
    IF client.mock = "return_value"
    THEN Returned(MockResponse)
    ELSE Raised("Exception", PyStr("Template not found"))

\* what the network does to the request of client.post(path, <kw>=body):
\* the mock sends none, nor does a call that fails on its keyword
Reaching(client, kw, net) ==
    IF client.kind = "HttpClient" /\ kw \in HttpClient_post_params THEN net ELSE "none"

\* await client.post(path, <kw>=body)
client_post(client, kw, net) ==
    IF client.kind = "Mock" THEN MockClient_post(client) ELSE HttpClient_post(kw, net)

(***************************************************************************)
(* modules/template.py: TurboTemplate                                      *)
(***************************************************************************)
\* _get_client without its check
get_client_Unchecked(moduleName, client) == [ok |-> TRUE, error |-> NoOutcome]

\* TurboTemplate._get_client / TurboSign._get_client / TurboPartner._get_client
get_client(moduleName, client) ==
    IF client.kind = "None"
    THEN [ok |-> FALSE, error |-> Raised("RuntimeError", PyStr(moduleName \o " not configured"))]
    ELSE [ok |-> TRUE, error |-> NoOutcome]

\* the keys generate copies from a variable when the caller supplied them,
\* in the order of its `if` statements
CopiedVariableKeys ==
    <<"value", "text", "usesAdvancedTemplatingEngine", "nestedInAdvancedTemplatingEngine",
      "allowRichTextInjection", "description", "defaultValue", "subvariables">>

\* the request parameters with outputFormat forwarded as well
CopiedRequestKeys_WithOutputFormat ==
    <<"name", "description", "replaceFonts", "defaultFont", "outputFormat", "metadata">>

\* the request parameters generate copies when present (outputFormat is not
\* among them)
CopiedRequestKeys == <<"name", "description", "replaceFonts", "defaultFont", "metadata">>

RECURSIVE CopyKeys(_, _, _)
CopyKeys(dst, src, keys) ==
    IF keys = <<>> THEN dst
    ELSE CopyKeys(CopyIfPresent(dst, src, Head(keys)), src, Tail(keys))

\* the check without its second half: an empty mimeType passes
MissingMimeType_KeyOnly(v) == "mimeType" \notin DOMAIN v

\* `"mimeType" not in v or not v["mimeType"]`
MissingMimeType(v) == "mimeType" \notin DOMAIN v \/ ~Truthy(v["mimeType"])

\* the record built with value read through v.get, so that it is always there
BuildVariable_ValueDefaulted(v) ==
    LET variable == ("placeholder" :> Get(v, "placeholder")) @@ ("name" :> Get(v, "name"))
                    @@ ("mimeType" :> v["mimeType"]) @@ ("value" :> Get(v, "value"))
    IN  CopyKeys(variable, v, CopiedVariableKeys)

\* the record generate builds for one variable that passed the mimeType check
BuildVariable(v) ==
    LET variable == ("placeholder" :> Get(v, "placeholder")) @@ ("name" :> Get(v, "name"))
                    @@ ("mimeType" :> v["mimeType"])
    IN  CopyKeys(variable, v, CopiedVariableKeys)

\* the loop over request["variables"]: the records built so far, stopping at
\* the first variable without mimeType (failed = its index, 0 when none)
RECURSIVE ProcessVariables(_, _, _)
ProcessVariables(variables, i, built) ==
    IF i > Len(variables) THEN [failed |-> 0, built |-> built]
    ELSE IF MissingMimeType(variables[i]) THEN [failed |-> i, built |-> built]
    ELSE ProcessVariables(variables, i + 1, Append(built, BuildVariable(variables[i])))

\* the body generate hands to the transport
BuildBody(request, built) ==
    LET body == ("templateId" :> request["templateId"]) @@ ("variables" :> built)
    IN  CopyKeys(body, request, CopiedRequestKeys)

\* the keyword under which generate passes the body to client.post
GenerateBodyKeyword == "json"

DeliverablePath == "/v1/deliverable"

\* generate with the post wrapped in a handler that tries once more and
\* reports a failure as its own error
generate_Retrying(client, request, net) ==
    LET got == get_client("TurboTemplate", client)
        pv  == ProcessVariables(request["variables"], 1, <<>>)
    IN  IF ~got.ok THEN [calls |-> <<>>, outcome |-> got.error]
        ELSE IF pv.failed # 0
        THEN [calls |-> <<>>,
              outcome |-> Raised("ValueError", Get(request["variables"][pv.failed], "placeholder"))]
        ELSE LET response == client_post(client, GenerateBodyKeyword, net)
                 call == Call(client, "post", DeliverablePath, GenerateBodyKeyword,
                              BuildBody(request, pv.built), NoFile,
                              Reaching(client, GenerateBodyKeyword, net), response)
             IN  IF response.kind = "error"
                 THEN [calls |-> <<call, call>>,
                       outcome |-> Raised("NetworkError", PyStr("Request failed"))]
                 ELSE [calls |-> <<call>>, outcome |-> response]

\* TurboTemplate.generate: the transport calls made and what the caller gets
generate(client, request, net) ==
    LET got == get_client("TurboTemplate", client)
        pv  == ProcessVariables(request["variables"], 1, <<>>)
    IN  IF ~got.ok THEN [calls |-> <<>>, outcome |-> got.error]
        ELSE IF pv.failed # 0
        THEN [calls |-> <<>>,
              outcome |-> Raised("ValueError", Get(request["variables"][pv.failed], "placeholder"))]
        ELSE LET response == client_post(client, GenerateBodyKeyword, net)
                 call == Call(client, "post", DeliverablePath, GenerateBodyKeyword,
                              BuildBody(request, pv.built), NoFile,
                              Reaching(client, GenerateBodyKeyword, net), response)
             IN  [calls |-> <<call>>, outcome |-> response]

ErrPlaceholderAndName == "Variable must have both \"placeholder\" and \"name\" properties"

WarnComplexObject == "Complex objects should explicitly set mimeType to \"json\""

WarnArray == "Array values should use mimeType: \"json\""

ErrImage == "Image variables must have a string value (URL or base64)"

\* the list returned as it is, empty or not
ListOrNone_KeepEmpty(xs) == [isNone |-> FALSE, items |-> xs]

\* `xs if xs else None`
ListOrNone(xs) == [isNone |-> xs = <<>>, items |-> xs]

\* the image check firing on a null or absent value only
CheckImage_NullOnly(mime_type, value) ==
    IF mime_type = PyStr("image") /\ value = PyNone THEN <<ErrImage>> ELSE <<>>

\* `if mime_type == "image": if not isinstance(value, str): errors.append(...)`
CheckImage(mime_type, value) ==
    IF mime_type = PyStr("image") /\ value.ty # "str" THEN <<ErrImage>> ELSE <<>>

\* the array check without its mimeType condition
CheckArray_AnyMimeType(mime_type, value) ==
    IF value.ty = "list" THEN <<WarnArray>> ELSE <<>>

\* `if isinstance(value, list): if mime_type != "json": warnings.append(...)`
CheckArray(mime_type, value) ==
    IF value.ty = "list" /\ mime_type # PyStr("json") THEN <<WarnArray>> ELSE <<>>

\* the complex-object check suppressed by the json mimeType only
CheckComplex_JsonOnly(mime_type, value) ==
    IF value.ty \in {"dict", "list"} /\ mime_type # PyStr("json") THEN <<WarnComplexObject>> ELSE <<>>

\* `if mime_type == "json" or (isinstance(value, (dict, list)) and value is
\* not None): if not mime_type: warnings.append(...)`
CheckComplex(mime_type, value) ==
    IF (mime_type = PyStr("json") \/ (value.ty \in {"dict", "list"} /\ value # PyNone))
       /\ ~Truthy(mime_type)
    THEN <<WarnComplexObject>> ELSE <<>>

\* `if not variable.get("placeholder") or not variable.get("name")`
CheckPlaceholderAndName(variable) ==
    IF ~Truthy(Get(variable, "placeholder")) \/ ~Truthy(Get(variable, "name"))
    THEN <<ErrPlaceholderAndName>> ELSE <<>>

\* a list whose later appends are skipped once it holds a message
Appended_FirstOnly(xs, ys) == IF xs # <<>> THEN xs ELSE xs \o ys

\* the list after the appends of a later check: the checks are consecutive
\* `if` statements, none returns
Appended(xs, ys) == xs \o ys

\* validate_variable with the earlier rule: an error only when placeholder
\* and name are both missing
validate_variable_EitherOr(variable) ==
    LET mime_type == Get(variable, "mimeType")
        value     == Get(variable, "value")
        e1 == IF ~Truthy(Get(variable, "placeholder")) /\ ~Truthy(Get(variable, "name"))
              THEN <<ErrPlaceholderAndName>> ELSE <<>>
        errors   == Appended(e1, CheckImage(mime_type, value))
        warnings == Appended(CheckComplex(mime_type, value), CheckArray(mime_type, value))
    IN  [isValid |-> Len(errors) = 0, errors |-> ListOrNone(errors), warnings |-> ListOrNone(warnings)]

\* TurboTemplate.validate_variable
validate_variable(variable) ==
    LET mime_type == Get(variable, "mimeType")
        value     == Get(variable, "value")
        errors   == Appended(CheckPlaceholderAndName(variable), CheckImage(mime_type, value))
        warnings == Appended(CheckComplex(mime_type, value), CheckArray(mime_type, value))
    IN  [isValid |-> Len(errors) = 0, errors |-> ListOrNone(errors), warnings |-> ListOrNone(warnings)]

\* the `if not <argument>: raise ValueError("<argument> is required")`
\* statements of a constructor, in order: the first one that fires
RECURSIVE FirstMissing(_)
FirstMissing(checks) ==
    IF checks = <<>> THEN ""
    ELSE IF ~Truthy(Head(checks)[2]) THEN Head(checks)[1]
    ELSE FirstMissing(Tail(checks))

Required(argument) == Raised("ValueError", PyStr(argument \o " is required"))

\* create_simple_variable with the value checked like the strings
create_simple_variable_ValueRequired(placeholder, name, value, mime_type) ==
    LET missing == FirstMissing(<<<<"placeholder", placeholder>>, <<"name", name>>,
                                  <<"value", value>>, <<"mime_type", mime_type>>>>)
    IN  IF missing # "" THEN Required(missing)
        ELSE IF mime_type \notin {PyStr("text"), PyStr("html")}
        THEN Raised("ValueError", PyStr("mime_type must be 'text' or 'html'"))
        ELSE Returned(("placeholder" :> placeholder) @@ ("name" :> name) @@ ("value" :> value)
                      @@ ("mimeType" :> mime_type))

\* TurboTemplate.create_simple_variable
create_simple_variable(placeholder, name, value, mime_type) ==
    LET missing == FirstMissing(<<<<"placeholder", placeholder>>, <<"name", name>>,
                                  <<"mime_type", mime_type>>>>)
    IN  IF missing # "" THEN Required(missing)
        ELSE IF mime_type \notin {PyStr("text"), PyStr("html")}
        THEN Raised("ValueError", PyStr("mime_type must be 'text' or 'html'"))
        ELSE Returned(("placeholder" :> placeholder) @@ ("name" :> name) @@ ("value" :> value)
                      @@ ("mimeType" :> mime_type))

\* the record the three advanced constructors return
AdvancedVariable(placeholder, name, value) ==
    ("placeholder" :> placeholder) @@ ("name" :> name) @@ ("value" :> value)
    @@ ("usesAdvancedTemplatingEngine" :> PyBool(TRUE)) @@ ("mimeType" :> PyStr("json"))

\* TurboTemplate.create_advanced_engine_variable
create_advanced_engine_variable(placeholder, name, value) ==
    LET missing == FirstMissing(<<<<"placeholder", placeholder>>, <<"name", name>>>>)
    IN  IF missing # "" THEN Required(missing)
        ELSE Returned(AdvancedVariable(placeholder, name, value))

\* create_loop_variable refusing a list without items
create_loop_variable_ItemsRequired(placeholder, name, value) ==
    LET missing == FirstMissing(<<<<"placeholder", placeholder>>, <<"name", name>>, <<"value", value>>>>)
    IN  IF missing # "" THEN Required(missing)
        ELSE Returned(AdvancedVariable(placeholder, name, value))

\* TurboTemplate.create_loop_variable
create_loop_variable(placeholder, name, value) ==
    LET missing == FirstMissing(<<<<"placeholder", placeholder>>, <<"name", name>>>>)
    IN  IF missing # "" THEN Required(missing)
        ELSE Returned(AdvancedVariable(placeholder, name, value))

\* TurboTemplate.create_conditional_variable
create_conditional_variable(placeholder, name, value) ==
    LET missing == FirstMissing(<<<<"placeholder", placeholder>>, <<"name", name>>>>)
    IN  IF missing # "" THEN Required(missing)
        ELSE Returned(AdvancedVariable(placeholder, name, value))

\* TurboTemplate.create_image_variable: image_url is checked for truth, not
\* for its type
create_image_variable(placeholder, name, image_url) ==
    LET missing == FirstMissing(<<<<"placeholder", placeholder>>, <<"name", name>>,
                                  <<"image_url", image_url>>>>)
    IN  IF missing # "" THEN Required(missing)
        ELSE Returned(("placeholder" :> placeholder) @@ ("name" :> name) @@ ("value" :> image_url)
                      @@ ("mimeType" :> PyStr("image")))

(***************************************************************************)
(* modules/sign.py: TurboSign                                              *)
(***************************************************************************)
\* json.dumps
json_dumps(x) ==
    CASE x.ty = "list"     -> PyStr("[" \o x.v \o "]")
      [] x.ty = "dict"     -> PyStr("{" \o x.v \o "}")
      [] x.ty = "str"      -> PyStr("\"" \o x.v \o "\"")
      [] x.ty = "NoneType" -> PyStr("null")
      [] x.ty = "bool"     -> PyStr(IF x.v = "True" THEN "true" ELSE "false")
      [] OTHER             -> PyStr(x.v)

\* the statement `if val: dst[k] = val`
CopyIfTruthy(dst, k, val) == IF Truthy(val) THEN (k :> val) @@ dst ELSE dst

\* the fields with senderName set on every request, to None when there is
\* no name
SignatureFields_AlwaysName(k, sender_config) ==
    LET b0 == ("recipients" :> json_dumps(k.recipients)) @@ ("fields" :> json_dumps(k.fields))
        b1 == CopyIfTruthy(b0, "documentName", k.document_name)
        b2 == CopyIfTruthy(b1, "documentDescription", k.document_description)
        b3 == ("senderEmail" :> PyOr(k.sender_email, sender_config.sender_email)) @@ b2
        b4 == ("senderName" :> PyOr(k.sender_name, sender_config.sender_name)) @@ b3
    IN  IF Truthy(k.cc_emails) THEN ("ccEmails" :> json_dumps(k.cc_emails)) @@ b4 ELSE b4

\* the fields the upload path and the JSON path share
SignatureFields(k, sender_config) ==
    LET b0 == ("recipients" :> json_dumps(k.recipients)) @@ ("fields" :> json_dumps(k.fields))
        b1 == CopyIfTruthy(b0, "documentName", k.document_name)
        b2 == CopyIfTruthy(b1, "documentDescription", k.document_description)
        b3 == ("senderEmail" :> PyOr(k.sender_email, sender_config.sender_email)) @@ b2
        b4 == IF Truthy(k.sender_name) \/ Truthy(sender_config.sender_name)
              THEN ("senderName" :> PyOr(k.sender_name, sender_config.sender_name)) @@ b3
              ELSE b3
    IN  IF Truthy(k.cc_emails) THEN ("ccEmails" :> json_dumps(k.cc_emails)) @@ b4 ELSE b4

\* the body of create_signature_review_link and of send_signature, which
\* differ in the endpoint only
signature_request(client, path, k, net) ==
    LET got == get_client("TurboSign", client)
        sender_config == get_sender_config(client)
        form_data == SignatureFields(k, sender_config)
        j1 == CopyIfTruthy(form_data, "fileLink", k.file_link)
        j2 == CopyIfTruthy(j1, "deliverableId", k.deliverable_id)
        json_body == CopyIfTruthy(j2, "templateId", k.template_id)
        read == Call(client, "get_sender_config", "", "", EmptyDict, NoFile, "none", Returned(sender_config))
    IN  IF ~got.ok THEN [calls |-> <<>>, outcome |-> got.error]
        ELSE IF Truthy(k.file)
        THEN LET response == HttpClient_upload_file(net)
                 file == [name |-> PyOr(k.file_name, PyStr("document.pdf")), content |-> k.file]
             IN  [calls |-> <<read, Call(client, "upload_file", path, "additional_data", form_data, file,
                                         net, response)>>,
                  outcome |-> response]
        ELSE LET response == HttpClient_post("data", net)
             IN  [calls |-> <<read, Call(client, "post", path, "data", json_body, NoFile, net, response)>>,
                  outcome |-> response]

\* TurboSign.create_signature_review_link
create_signature_review_link(client, k, net) ==
    signature_request(client, "/turbosign/single/prepare-for-review", k, net)

\* TurboSign.send_signature
send_signature(client, k, net) ==
    signature_request(client, "/turbosign/single/prepare-for-signing", k, net)

DocumentPath(document_id, suffix) == "/turbosign/documents/" \o document_id.v \o suffix

\* a TurboSign operation that is one client.get
sign_get(client, path, net) ==
    LET got == get_client("TurboSign", client)
        response == HttpClient_get(net)
    IN  IF ~got.ok THEN [calls |-> <<>>, outcome |-> got.error]
        ELSE [calls |-> <<Call(client, "get", path, "", EmptyDict, NoFile, net, response)>>,
              outcome |-> response]

\* a TurboSign operation that is one client.post(path, data=body)
sign_post(client, path, body, net) ==
    LET got == get_client("TurboSign", client)
        response == HttpClient_post("data", net)
    IN  IF ~got.ok THEN [calls |-> <<>>, outcome |-> got.error]
        ELSE [calls |-> <<Call(client, "post", path, "data", body, NoFile, net, response)>>,
              outcome |-> response]

\* TurboSign.get_status
get_status(client, document_id, net) == sign_get(client, DocumentPath(document_id, "/status"), net)

\* TurboSign.get_audit_trail
get_audit_trail(client, document_id, net) ==
    sign_get(client, DocumentPath(document_id, "/audit-trail"), net)

\* TurboSign.void_document
void_document(client, document_id, reason, net) ==
    sign_post(client, DocumentPath(document_id, "/void"), "reason" :> reason, net)

\* TurboSign.resend_email
resend_email(client, document_id, recipient_ids, net) ==
    sign_post(client, DocumentPath(document_id, "/resend-email"), "recipientIds" :> recipient_ids, net)

\* what the storage behind the presigned URL does: the answer names no URL,
\* the file is fetched, the fetch is answered with an error status, the
\* fetch gets no answer
DownloadBehaviours == {"no-url", "fetched", "fetch-status", "fetch-timeout"}

\* TurboSign.download: the API call for the presigned URL, then the fetch of
\* that URL outside the client
download(client, document_id, net, storage) ==
    LET first == sign_get(client, DocumentPath(document_id, "/download"), net)
        fetched == IF storage = "fetched" THEN Returned(ResponseBytes)
                   ELSE Raised("NetworkError", PyStr("Failed to download file"))
        fetch == Call(NoClient, "httpx.get", "downloadUrl", "", EmptyDict, NoFile, storage, fetched)
    IN  IF first.outcome.kind # "ok" THEN first
        ELSE IF first.outcome.value.ty = "bytes"
        THEN [calls |-> first.calls, outcome |-> Raised("AttributeError", PyStr("get"))]
        ELSE IF storage = "no-url"
        THEN [calls |-> first.calls, outcome |-> Raised("ValueError", PyStr("No download URL in response"))]
        ELSE [calls |-> first.calls \o <<fetch>>, outcome |-> fetched]

(***************************************************************************)
(* modules/partner.py: TurboPartner                                        *)
(***************************************************************************)
\* str(x) inside an f-string
PyFormat(x) == IF x.ty = "NoneType" THEN "None" ELSE x.v

RECURSIVE JoinParams(_)
JoinParams(ps) ==
    IF ps = <<>> THEN ""
    ELSE LET h == Head(ps)
             shown == IF h[2].ty = "bool" THEN (IF h[2].v = "True" THEN "true" ELSE "false") ELSE h[2].v
         IN  h[1] \o "=" \o shown \o (IF Tail(ps) = <<>> THEN "" ELSE "&" \o JoinParams(Tail(ps)))

\* _build_query_string: the parameters that are not None, booleans in lower
\* case (percent-encoding leaves the values used here unchanged)
build_query_string(params) ==
    LET filtered == SelectSeq(params, LAMBDA q : q[2] # PyNone)
    IN  IF filtered = <<>> THEN "" ELSE "?" \o JoinParams(filtered)

\* TurboPartner._base_path
base_path(partner_id) == "/partner/" \o PyFormat(partner_id)

ListQuery == <<<<"limit", "limit">>, <<"offset", "offset">>, <<"search", "search">>>>

AuditQuery ==
    ListQuery \o <<<<"action", "action">>, <<"resourceType", "resource_type">>,
                   <<"resourceId", "resource_id">>, <<"success", "success">>,
                   <<"startDate", "start_date">>, <<"endDate", "end_date">>>>

PartnerOp(name, method, suffix, required, optional, query, sendsBody) ==
    [name |-> name, method |-> method, suffix |-> suffix, required |-> required,
     optional |-> optional, query |-> query, sendsBody |-> sendsBody]

OrgPath == "/organizations/org-1"

\* the request operations of TurboPartner: method, path below the base
\* path, the body keys always sent, the body keys sent when not None, the
\* query parameters (wire name, argument name), and whether data= is passed
PartnerOperations ==
    {PartnerOp("create_organization", "post", "/organization", {"name"}, {"metadata", "features"}, <<>>, TRUE),
     PartnerOp("list_organizations", "get", "/organizations", {}, {}, ListQuery, FALSE),
     PartnerOp("get_organization_details", "get", OrgPath, {}, {}, <<>>, FALSE),
     PartnerOp("update_organization_info", "patch", OrgPath, {"name"}, {}, <<>>, TRUE),
     PartnerOp("delete_organization", "delete", OrgPath, {}, {}, <<>>, FALSE),
     PartnerOp("update_organization_entitlements", "patch", OrgPath \o "/entitlements", {}, {"features"}, <<>>, TRUE),
     PartnerOp("list_organization_users", "get", OrgPath \o "/users", {}, {}, ListQuery, FALSE),
     PartnerOp("add_user_to_organization", "post", OrgPath \o "/users", {"email", "role"}, {}, <<>>, TRUE),
     PartnerOp("update_organization_user_role", "patch", OrgPath \o "/users/user-1", {"role"}, {}, <<>>, TRUE),
     PartnerOp("remove_user_from_organization", "delete", OrgPath \o "/users/user-1", {}, {}, <<>>, FALSE),
     PartnerOp("resend_organization_invitation_to_user", "post",
               OrgPath \o "/users/user-1/resend-invitation", {}, {}, <<>>, FALSE),
     PartnerOp("list_organization_api_keys", "get", OrgPath \o "/apikeys", {}, {}, ListQuery, FALSE),
     PartnerOp("create_organization_api_key", "post", OrgPath \o "/apikeys", {"name", "role"}, {}, <<>>, TRUE),
     PartnerOp("update_organization_api_key", "patch", OrgPath \o "/apikeys/key-1", {}, {"name", "role"}, <<>>, TRUE),
     PartnerOp("revoke_organization_api_key", "delete", OrgPath \o "/apikeys/key-1", {}, {}, <<>>, FALSE),
     PartnerOp("list_partner_api_keys", "get", "/api-keys", {}, {}, ListQuery, FALSE),
     PartnerOp("create_partner_api_key", "post", "/api-keys", {"name", "scopes"}, {"description"}, <<>>, TRUE),
     PartnerOp("update_partner_api_key", "patch", "/api-keys/key-1", {}, {"name", "description", "scopes"}, <<>>, TRUE),
     PartnerOp("revoke_partner_api_key", "delete", "/api-keys/key-1", {}, {}, <<>>, FALSE),
     PartnerOp("list_partner_portal_users", "get", "/users", {}, {}, ListQuery, FALSE),
     PartnerOp("add_user_to_partner_portal", "post", "/users", {"email", "role", "permissions"}, {}, <<>>, TRUE),
     PartnerOp("update_partner_user_permissions", "patch", "/users/user-1", {}, {"role", "permissions"}, <<>>, TRUE),
     PartnerOp("remove_user_from_partner_portal", "delete", "/users/user-1", {}, {}, <<>>, FALSE),
     PartnerOp("resend_partner_portal_invitation_to_user", "post", "/users/user-1/resend-invitation",
               {}, {}, <<>>, FALSE),
     PartnerOp("get_partner_audit_logs", "get", "/audit-logs", {}, {}, AuditQuery, FALSE)}

\* one request operation of TurboPartner: _get_client, the body, the query
\* string, the path under _base_path, the call
partner_request(client, partner_id, operation, k, net) ==
    LET got == get_client("TurboPartner", client)
        body == [key \in operation.required \cup {o \in operation.optional : Get(k, o) # PyNone} |-> k[key]]
        qs == build_query_string([i \in 1..Len(operation.query) |->
                                    <<operation.query[i][1], Get(k, operation.query[i][2])>>])
        path == base_path(partner_id) \o operation.suffix \o qs
        response == PartnerHttpClient_request(operation.method, net)
    IN  IF ~got.ok THEN [calls |-> <<>>, outcome |-> got.error]
        ELSE [calls |-> <<Call(client, operation.method, path,
                               IF operation.sendsBody THEN "data" ELSE "",
                               IF operation.sendsBody THEN body ELSE EmptyDict, NoFile, net, response)>>,
              outcome |-> response]

(***************************************************************************)
(* Inputs                                                                  *)
(***************************************************************************)
MaxVars == 2

\* a key left out, or the key with one of the values
Opt(k, values) == {EmptyDict} \cup {k :> x : x \in values}

SeqsUpTo(S, n) == UNION {[1..k -> S] : k \in 0..n}

GoodCore ==
    ("placeholder" :> PyStr("{a}")) @@ ("name" :> PyStr("a")) @@ ("mimeType" :> PyStr("text"))

\* placeholder, name and mimeType: each present, empty or absent
CoreVariables ==
    LET all == {p @@ n @@ m :
                  p \in Opt("placeholder", {PyStr(""), PyStr("{a}"), PyStr("{b}")}),
                  n \in Opt("name", {PyStr(""), PyStr("a")}),
                  m \in Opt("mimeType", {PyStr(""), PyStr("text")})}
        deviations(v) ==
            (IF Truthy(Get(v, "placeholder")) THEN 0 ELSE 1)
            + (IF Truthy(Get(v, "name")) THEN 0 ELSE 1)
            + (IF Truthy(Get(v, "mimeType")) THEN 0 ELSE 1)
    IN  {v \in all : deviations(v) <= 1 \/ DOMAIN v = {}}

\* value and text: absent, null, a string, a list
\* and an image variable that carries no value
PayloadVariables ==
    {GoodCore @@ val @@ txt :
       val \in Opt("value", {PyNone, PyStr("Jane")}),
       txt \in Opt("text", {PyStr("Legacy")})}
    \cup {("placeholder" :> PyStr("{logo}")) @@ ("name" :> PyStr("logo")) @@ ("mimeType" :> PyStr("image"))}

JsonCore ==
    ("placeholder" :> PyStr("{items}")) @@ ("name" :> PyStr("items")) @@ ("mimeType" :> PyStr("json"))
    @@ ("value" :> PyList("{name:Widget,qty:3}"))

AllFlags ==
    ("usesAdvancedTemplatingEngine" :> PyBool(TRUE)) @@ ("nestedInAdvancedTemplatingEngine" :> PyBool(FALSE))
    @@ ("allowRichTextInjection" :> PyBool(TRUE)) @@ ("description" :> PyStr("line items"))
    @@ ("defaultValue" :> PyBool(FALSE)) @@ ("subvariables" :> PyList(""))

\* the optional flags: all of them, one of them, one of them set to None
FlagVariables ==
    {JsonCore @@ AllFlags,
     JsonCore @@ ("usesAdvancedTemplatingEngine" :> PyBool(TRUE)),
     JsonCore @@ ("description" :> PyNone) @@ ("subvariables" :> PyNone)}

VariablePool == CoreVariables \cup PayloadVariables \cup FlagVariables

AllRequestOptions ==
    {n @@ d @@ r @@ f @@ o @@ m :
       n \in Opt("name", {PyStr("Invoice")}),
       d \in Opt("description", {PyNone, PyStr("Q3")}),
       r \in Opt("replaceFonts", {PyBool(TRUE)}),
       f \in Opt("defaultFont", {PyStr("Arial")}),
       o \in Opt("outputFormat", {PyStr("pdf")}),
       m \in Opt("metadata", {PyDict("customField:value")})}

MakeRequest(options, variables) ==
    ("templateId" :> PyStr("t-1")) @@ ("variables" :> variables) @@ options

\* requests that vary the variables under a plain envelope, and requests
\* that vary the envelope around one plain variable
GenerateRequests ==
    {MakeRequest("name" :> PyStr("Invoice"), vs) : vs \in SeqsUpTo(VariablePool, MaxVars)}
    \cup {MakeRequest(options, <<GoodCore @@ ("value" :> PyStr("Jane"))>>) : options \in AllRequestOptions}

ValidateInputs ==
    {p @@ n @@ m @@ val @@ txt :
       p \in Opt("placeholder", {PyStr(""), PyStr("{a}")}),
       n \in Opt("name", {PyStr(""), PyStr("a")}),
       m \in Opt("mimeType", {PyNone, PyStr(""), PyStr("text"), PyStr("json"), PyStr("image")}),
       val \in Opt("value", {PyNone, PyStr(""), PyStr("https://x/logo.png"), PyInt("123"), PyBool(FALSE),
                             PyList(""), PyList("1,2,3"), PyDict(""), PyDict("name:Test")}),
       txt \in Opt("text", {PyStr("Legacy")})}

\* the arguments of the variable constructors
ConstructorPlaceholders == {PyStr(""), PyStr("{a}")}

ConstructorNames == {PyStr(""), PyStr("a")}

ConstructorValues ==
    {PyNone, PyStr(""), PyStr("Jane"), PyInt("0"), PyInt("123"), PyBool(FALSE), PyBool(TRUE),
     PyList(""), PyList("1,2,3"), PyDict(""), PyDict("name:Test")}

\* VariableMimeType, the empty string and a string outside the enumeration
ConstructorMimeTypes ==
    {PyStr(""), PyStr("text"), PyStr("html"), PyStr("image"), PyStr("markdown"), PyStr("json"),
     PyStr("pdf")}

ImagePayloads ==
    {PyNone, PyStr(""), PyStr("https://example.com/logo.png"), PyStr("data:image/png;base64,iVBOR"),
     PyInt("0"), PyInt("123"), PyList(""), PyList("logo.png")}

AdvancedConstructors == {"create_advanced_engine_variable", "create_loop_variable", "create_conditional_variable"}

\* the bytes the short buffers are made of
MagicBytes == {"%", "P", "D", "F", "K", "x"}

MaxShort == 4

\* every buffer of at most MaxShort bytes
ShortBuffers == UNION {[1..n -> MagicBytes] : n \in 0..MaxShort}

\* archives and a PDF that carry the markers, together, apart or not at all
MarkerBuffers ==
    {<<"P", "K", "x", "x">> \o tail :
        tail \in {<<"p", "p", "t", "/">>, <<"w", "o", "r", "d", "/">>,
                  <<"w", "o", "r", "d", "/", "p", "p", "t", "/">>, <<"p", "p", "t">>}}
    \cup {<<"%", "P", "D", "F", "p", "p", "t", "/">>, <<"x", "x", "x", "x", "p", "p", "t", "/">>}

\* a buffer that begins with prefix, is filled up to n bytes, and goes on
\* with tail, whose first byte is byte n + 1
Padded(prefix, n, tail) == prefix \o [i \in 1..(n - Len(prefix)) |-> "x"] \o tail

\* archives whose markers lie at the end of the searched header, across its
\* end and beyond it, and headers that end inside a two-byte sequence
BoundaryBuffers ==
    {Padded(<<"P", "K">>, HeaderLimit - 4, <<"p", "p", "t", "/">>),
     Padded(<<"P", "K">>, HeaderLimit - 3, <<"p", "p", "t", "/">>),
     Padded(<<"P", "K">>, HeaderLimit, <<"p", "p", "t", "/">>),
     Padded(<<"P", "K", "w", "o", "r", "d", "/">>, HeaderLimit, <<"p", "p", "t", "/">>),
     Padded(<<"P", "K", "p", "p", "t", "/">>, HeaderLimit, <<"w", "o", "r", "d", "/">>),
     Padded(<<"P", "K">>, HeaderLimit - 5, <<"w", "o", "r", "d", "/">>),
     Padded(<<"P", "K">>, HeaderLimit - 4, <<"w", "o", "r", "d", "/">>),
     Padded(<<"P", "K">>, HeaderLimit - 1, <<LeadByte, ContinuationByte, "p", "p", "t", "/">>),
     Padded(<<"P", "K">>, HeaderLimit - 5, <<"p", "p", "t", "/", LeadByte, ContinuationByte>>),
     Padded(<<"P", "K">>, HeaderLimit - 3, <<"p", "p", LeadByte, ContinuationByte, "t", "/">>),
     Padded(<<"%", "P", "D", "F">>, HeaderLimit - 4, <<"p", "p", "t", "/">>)}

\* archives whose marker characters are separated by bytes that are not ASCII
BinaryBuffers ==
    {<<"P", "K", "x", "x">> \o <<"p", "p">> \o gap \o <<"t", "/">> :
        gap \in {<<>>, <<InvalidByte>>, <<LeadByte>>, <<ContinuationByte>>,
                 <<LeadByte, ContinuationByte>>, <<"x">>}}
    \cup {<<"P", "K", "x", "x">> \o <<"w", "o", "r">> \o gap \o <<"d", "/">> :
             gap \in {<<InvalidByte>>, <<LeadByte, ContinuationByte>>}}
    \cup {<<"P", "K", InvalidByte, LeadByte>>, <<"%", "P", "D", "F", InvalidByte, "p", "p", "t", "/">>}

FileBuffers == ShortBuffers \cup MarkerBuffers \cup BoundaryBuffers \cup BinaryBuffers

\* the callers that run TurboPartner operations at the same time
Threads == {1, 2}

\* a caller outside any operation; inside one, the statement it is at, the
\* value it has loaded (client: the local `client` of a request; id: the
\* partner_id read on the right of line 89) and, at the end, what it got
IdleThread == [pc |-> "idle", client |-> NoPartnerClient, id |-> PyNone, outcome |-> NoOutcome]

Environments ==
    {EmptyDict,
     ("TURBODOCX_API_KEY" :> PyStr("env-key")) @@ ("TURBODOCX_ORG_ID" :> PyStr("env-org"))
     @@ ("TURBODOCX_SENDER_EMAIL" :> PyStr("env@company.com"))
     @@ ("TURBODOCX_SENDER_NAME" :> PyStr("Env Name"))
     @@ ("TURBODOCX_BASE_URL" :> PyStr("https://env.example.com"))
     @@ ("TURBODOCX_PARTNER_API_KEY" :> PyStr("TDXP-env-key"))
     @@ ("TURBODOCX_PARTNER_ID" :> PyStr("env-partner"))}

ValidConfigureArgs ==
    [api_key |-> PyStr("test-key"), access_token |-> PyNone, base_url |-> DefaultBaseUrl,
     org_id |-> PyStr("test-org"), sender_email |-> PyStr("test@company.com"), sender_name |-> PyNone]

\* the valid arguments, and the valid arguments with one credential left out
ConfigureArgs ==
    {ValidConfigureArgs,
     [ValidConfigureArgs EXCEPT !.api_key = PyNone],
     [ValidConfigureArgs EXCEPT !.org_id = PyNone],
     [ValidConfigureArgs EXCEPT !.sender_email = PyNone]}

(***************************************************************************)
(* Operations                                                              *)
(***************************************************************************)
Init ==
    /\ environ \in Environments
    /\ tplClient = NoClient
    /\ signClient = NoClient
    /\ partnerClient = NoPartnerClient
    /\ partnerId = PyNone
    /\ op = "idle"
    /\ arg = EmptyDict
    /\ calls = <<>>
    /\ outcome = NoOutcome
    /\ threads = [t \in Threads |-> IdleThread]

\* TurboTemplate.configure: the class attribute is assigned only when the
\* constructor returned
TemplateConfigure(a) ==
    LET made == HttpClient_init(environ, a)
    IN  /\ op = "idle"
        /\ tplClient' = IF made.ok THEN made.client ELSE tplClient
        /\ op' = "TurboTemplate.configure"
        /\ arg' = a
        /\ calls' = <<>>
        /\ outcome' = IF made.ok THEN Returned(PyNone) ELSE made.error
        /\ UNCHANGED <<threads, environ, signClient, partnerClient, partnerId>>

\* the tests' patch of the client: post is a mock with the given behaviour
TemplatePatchClient(behaviour) ==
    /\ op = "idle"
    /\ tplClient' = MockClient(behaviour)
    /\ op' = "TurboTemplate.patch"
    /\ arg' = EmptyDict
    /\ calls' = <<>>
    /\ outcome' = NoOutcome
    /\ UNCHANGED <<threads, environ, signClient, partnerClient, partnerId>>

\* await TurboTemplate.generate(request)
Generate(request, net) ==
    LET run == generate(tplClient, request, net)
    IN  /\ op = "idle"
        /\ op' = "TurboTemplate.generate"
        /\ arg' = request
        /\ calls' = run.calls
        /\ outcome' = run.outcome
        /\ UNCHANGED <<threads, environ, tplClient, signClient, partnerClient, partnerId>>

\* TurboTemplate.validate_variable(variable)
ValidateVariable(variable) ==
    /\ op = "idle"
    /\ op' = "TurboTemplate.validate_variable"
    /\ arg' = variable
    /\ calls' = <<>>
    /\ outcome' = Returned(validate_variable(variable))
    /\ UNCHANGED <<threads, environ, tplClient, signClient, partnerClient, partnerId>>

\* TurboTemplate.create_simple_variable(placeholder, name, value, mime_type)
CreateSimpleVariable(placeholder, name, value, mime_type) ==
    /\ op = "idle"
    /\ op' = "TurboTemplate.create_simple_variable"
    /\ arg' = [placeholder |-> placeholder, name |-> name, value |-> value, mime_type |-> mime_type]
    /\ calls' = <<>>
    /\ outcome' = create_simple_variable(placeholder, name, value, mime_type)
    /\ UNCHANGED <<threads, environ, tplClient, signClient, partnerClient, partnerId>>

\* TurboTemplate.create_advanced_engine_variable / create_loop_variable /
\* create_conditional_variable (placeholder, name, value)
CreateAdvancedVariable(constructor, placeholder, name, value) ==
    /\ op = "idle"
    /\ op' = "TurboTemplate." \o constructor
    /\ arg' = [placeholder |-> placeholder, name |-> name, value |-> value]
    /\ calls' = <<>>
    /\ outcome' = CASE constructor = "create_advanced_engine_variable"
                         -> create_advanced_engine_variable(placeholder, name, value)
                    [] constructor = "create_loop_variable"
                         -> create_loop_variable(placeholder, name, value)
                    [] constructor = "create_conditional_variable"
                         -> create_conditional_variable(placeholder, name, value)
    /\ UNCHANGED <<threads, environ, tplClient, signClient, partnerClient, partnerId>>

\* TurboTemplate.create_image_variable(placeholder, name, image_url)
CreateImageVariable(placeholder, name, image_url) ==
    /\ op = "idle"
    /\ op' = "TurboTemplate.create_image_variable"
    /\ arg' = [placeholder |-> placeholder, name |-> name, image_url |-> image_url]
    /\ calls' = <<>>
    /\ outcome' = create_image_variable(placeholder, name, image_url)
    /\ UNCHANGED <<threads, environ, tplClient, signClient, partnerClient, partnerId>>

ConstructorOperations ==
    {"TurboTemplate.create_simple_variable", "TurboTemplate.create_advanced_engine_variable",
     "TurboTemplate.create_loop_variable", "TurboTemplate.create_conditional_variable",
     "TurboTemplate.create_image_variable"}

\* the caller hands the record a constructor has just returned to generate,
\* as the only variable of a request
GenerateConstructed(net) ==
    LET request == MakeRequest("name" :> PyStr("Invoice"), <<outcome.value>>)
        run == generate(tplClient, request, net)
    IN  /\ op \in ConstructorOperations
        /\ outcome.kind = "ok"
        /\ op' = "TurboTemplate.generate"
        /\ arg' = request
        /\ calls' = run.calls
        /\ outcome' = run.outcome
        /\ UNCHANGED <<threads, environ, tplClient, signClient, partnerClient, partnerId>>

\* the caller hands the variable validate_variable has just accepted to
\* generate, as the only variable of a request
GenerateValidated(net) ==
    LET request == MakeRequest("name" :> PyStr("Invoice"), <<arg>>)
        run == generate(tplClient, request, net)
    IN  /\ op = "TurboTemplate.validate_variable"
        /\ outcome.value.isValid
        /\ op' = "TurboTemplate.generate"
        /\ arg' = request
        /\ calls' = run.calls
        /\ outcome' = run.outcome
        /\ UNCHANGED <<threads, environ, tplClient, signClient, partnerClient, partnerId>>

\* the operation has returned to its caller, who is free to start the next one
Return ==
    /\ op # "idle"
    /\ op' = "idle"
    /\ arg' = EmptyDict
    /\ calls' = <<>>
    /\ outcome' = NoOutcome
    /\ UNCHANGED <<threads, environ, tplClient, signClient, partnerClient, partnerId>>

\* what the network does while generate is in flight
GenerateNet == {"200", "500", "timeout"}

\* the caller runs one operation at a time: it starts one when idle, and the
\* operation in flight returns
Next ==
    \/ /\ op = "idle"
       /\ \/ \E a \in ConfigureArgs : TemplateConfigure(a)
          \/ \E b \in MockBehaviours : TemplatePatchClient(b)
          \/ \E r \in GenerateRequests, net \in GenerateNet : Generate(r, net)
          \/ \E v \in ValidateInputs : ValidateVariable(v)
          \/ \E p \in ConstructorPlaceholders, n \in ConstructorNames,
                v \in ConstructorValues, m \in ConstructorMimeTypes :
                CreateSimpleVariable(p, n, v, m)
          \/ \E c \in AdvancedConstructors, p \in ConstructorPlaceholders, n \in ConstructorNames,
                v \in ConstructorValues :
                CreateAdvancedVariable(c, p, n, v)
          \/ \E p \in ConstructorPlaceholders, n \in ConstructorNames, u \in ImagePayloads :
                CreateImageVariable(p, n, u)
    \/ \E net \in GenerateNet : GenerateConstructed(net)
    \/ \E net \in GenerateNet : GenerateValidated(net)
    \/ Return

Spec == Init /\ [][Next]_vars

(***************************************************************************)
(* The content sniffer on its own                                          *)
(***************************************************************************)
\* detect_file_type(file_bytes)
DetectFileType(file_bytes) ==
    /\ op = "idle"
    /\ op' = "detect_file_type"
    /\ arg' = file_bytes
    /\ calls' = <<>>
    /\ outcome' = Returned(detect_file_type(file_bytes))
    /\ UNCHANGED <<threads, environ, tplClient, signClient, partnerClient, partnerId>>

\* the caller calls detect_file_type(file_bytes) once more on the same bytes
DetectFileTypeAgain ==
    /\ op = "detect_file_type"
    /\ op' = "detect_file_type (again)"
    /\ arg' = arg
    /\ calls' = <<>>
    /\ outcome' = Returned(detect_file_type(arg))
    /\ UNCHANGED <<threads, environ, tplClient, signClient, partnerClient, partnerId>>

NextSniffer ==
    \/ /\ op = "idle"
       /\ \E b \in FileBuffers : DetectFileType(b)
    \/ DetectFileTypeAgain
    \/ Return

SpecSniffer == Init /\ [][NextSniffer]_vars

(***************************************************************************)
(* The three modules side by side                                          *)
(***************************************************************************)
\* TurboSign.configure
SignConfigure(a) ==
    LET made == HttpClient_init(environ, a)
    IN  /\ op = "idle"
        /\ signClient' = IF made.ok THEN made.client ELSE signClient
        /\ op' = "TurboSign.configure"
        /\ arg' = a
        /\ calls' = <<>>
        /\ outcome' = IF made.ok THEN Returned(PyNone) ELSE made.error
        /\ UNCHANGED <<threads, environ, tplClient, partnerClient, partnerId>>

\* configure taking _partner_id from its argument instead of the client
PartnerConfigure_IdFromArgument(a) ==
    LET made == PartnerHttpClient_init(environ, a)
    IN  /\ op = "idle"
        /\ partnerClient' = IF made.ok THEN made.client ELSE partnerClient
        /\ partnerId' = IF made.ok THEN a.partner_id ELSE partnerId
        /\ op' = "TurboPartner.configure"
        /\ arg' = a
        /\ calls' = <<>>
        /\ outcome' = IF made.ok THEN Returned(PyNone) ELSE made.error
        /\ UNCHANGED <<threads, environ, tplClient, signClient>>

\* TurboPartner.configure: both class attributes are assigned after the
\* constructor returned, neither when it raised
PartnerConfigure(a) ==
    LET made == PartnerHttpClient_init(environ, a)
    IN  /\ op = "idle"
        /\ partnerClient' = IF made.ok THEN made.client ELSE partnerClient
        /\ partnerId' = IF made.ok THEN made.client.partner_id ELSE partnerId
        /\ op' = "TurboPartner.configure"
        /\ arg' = a
        /\ calls' = <<>>
        /\ outcome' = IF made.ok THEN Returned(PyNone) ELSE made.error
        /\ UNCHANGED <<threads, environ, tplClient, signClient>>

\* await TurboSign.create_signature_review_link(...) / send_signature(...)
SignatureRequest(name, k, net) ==
    LET run == IF name = "create_signature_review_link"
               THEN create_signature_review_link(signClient, k, net)
               ELSE send_signature(signClient, k, net)
    IN  /\ op = "idle"
        /\ op' = "TurboSign." \o name
        /\ arg' = k
        /\ calls' = run.calls
        /\ outcome' = run.outcome
        /\ UNCHANGED <<threads, environ, tplClient, signClient, partnerClient, partnerId>>

DocumentId == PyStr("doc-123")

\* await TurboSign.get_status / get_audit_trail / void_document / resend_email
SignDocumentRequest(name, net) ==
    LET run == CASE name = "get_status"      -> get_status(signClient, DocumentId, net)
                 [] name = "get_audit_trail" -> get_audit_trail(signClient, DocumentId, net)
                 [] name = "void_document"   -> void_document(signClient, DocumentId, PyStr("revision"), net)
                 [] OTHER                    -> resend_email(signClient, DocumentId, PyList("rec-1,rec-2"), net)
    IN  /\ op = "idle"
        /\ op' = "TurboSign." \o name
        /\ arg' = IF name = "void_document"
                  THEN ("document_id" :> DocumentId) @@ ("reason" :> PyStr("revision"))
                  ELSE "document_id" :> DocumentId
        /\ calls' = run.calls
        /\ outcome' = run.outcome
        /\ UNCHANGED <<threads, environ, tplClient, signClient, partnerClient, partnerId>>

\* await TurboSign.download(document_id)
Download(net, storage) ==
    LET run == download(signClient, DocumentId, net, storage)
    IN  /\ op = "idle"
        /\ op' = "TurboSign.download"
        /\ arg' = "document_id" :> DocumentId
        /\ calls' = run.calls
        /\ outcome' = run.outcome
        /\ UNCHANGED <<threads, environ, tplClient, signClient, partnerClient, partnerId>>

\* await TurboPartner.<operation>(...)
PartnerRequest(operation, k, net) ==
    LET run == partner_request(partnerClient, partnerId, operation, k, net)
    IN  /\ op = "idle"
        /\ op' = "TurboPartner." \o operation.name
        /\ arg' = k
        /\ calls' = run.calls
        /\ outcome' = run.outcome
        /\ UNCHANGED <<threads, environ, tplClient, signClient, partnerClient, partnerId>>

SignatureOperations == {"create_signature_review_link", "send_signature"}

SignDocumentOperations == {"get_status", "get_audit_trail", "void_document", "resend_email"}

PdfBytes == [ty |-> "bytes", v |-> "%PDF-1.4"]

SignatureKwargs ==
    [recipients : {PyList("{name:John,email:john@example.com,signingOrder:1}")},
     fields : {PyList("{type:signature,page:1}")},
     file : {PyNone, PdfBytes},
     file_name : {PyNone},
     file_link : {PyNone},
     deliverable_id : {PyNone},
     template_id : {PyNone, PyStr("t-1")},
     document_name : {PyStr("Contract")},
     document_description : {PyNone},
     sender_name : {PyNone, PyStr("Request Sender")},
     sender_email : {PyNone, PyStr(""), PyStr("request@company.com")},
     cc_emails : {PyNone}]

\* a value for every argument a TurboPartner operation takes
PartnerArgument ==
    [a \in {"name", "metadata", "features", "email", "role", "permissions", "scopes", "description",
            "limit", "offset", "search", "action", "resource_type", "resource_id", "success",
            "start_date", "end_date"} |->
       CASE a \in {"metadata", "features", "permissions"} -> PyDict(a)
         [] a = "scopes"                                  -> PyList("org:read")
         [] a \in {"limit", "offset"}                     -> PyInt("10")
         [] a = "success"                                 -> PyBool(TRUE)
         [] OTHER                                         -> PyStr(a)]

\* the required arguments alone, or every argument of the operation
PartnerKwargs(operation) ==
    LET queryArgs == {operation.query[i][2] : i \in 1..Len(operation.query)}
    IN  {[a \in operation.required |-> PartnerArgument[a]],
         [a \in operation.required \cup operation.optional \cup queryArgs |-> PartnerArgument[a]]}

PartnerConfigureArgs ==
    [partner_api_key : {PyNone, PyStr("TDXP-test-key")},
     partner_id : {PyNone, PyStr("test-partner-id"), PyStr("other-partner-id")},
     base_url : {DefaultBaseUrl}]

TransportMethods == {"get", "post", "patch", "delete", "upload_file"}

\* a transport method called on the client TurboSign holds:
\* await client.get(path), client.post(path, data=...), client.patch(path,
\* data=...), client.delete(path), client.upload_file(path, file=...)
TransportRequest(method, net) ==
    LET response == CASE method = "get"    -> HttpClient_get(net)
                      [] method = "post"   -> HttpClient_post("data", net)
                      [] method = "patch"  -> HttpClient_patch("data", net)
                      [] method = "delete" -> HttpClient_delete(net)
                      [] OTHER             -> HttpClient_upload_file(net)
        file == IF method = "upload_file"
                THEN [name |-> PyStr("document.pdf"), content |-> PdfBytes] ELSE NoFile
        kw == IF method \in {"post", "patch"} THEN "data" ELSE ""
    IN  /\ op = "idle"
        /\ signClient.kind = "HttpClient"
        /\ op' = "HttpClient." \o method
        /\ arg' = EmptyDict
        /\ calls' = <<Call(signClient, method, "/turbosign/documents", kw, EmptyDict, file, net, response)>>
        /\ outcome' = response
        /\ UNCHANGED <<threads, environ, tplClient, signClient, partnerClient, partnerId>>

\* a valid request, a request whose variable has no mimeType, no variables
ModuleRequests ==
    {MakeRequest("name" :> PyStr("Invoice"), <<GoodCore @@ ("value" :> PyStr("Jane"))>>),
     MakeRequest("name" :> PyStr("Invoice"),
                 <<("placeholder" :> PyStr("{test}")) @@ ("name" :> PyStr("test")) @@ ("value" :> PyStr("v"))>>),
     MakeRequest("name" :> PyStr("Invoice"), <<>>)}

ModuleNet == {"200", "200-empty", "404", "timeout"}

NextModules ==
    \/ /\ op = "idle"
       /\ \/ \E a \in ConfigureArgs : TemplateConfigure(a)
          \/ \E a \in ConfigureArgs : SignConfigure(a)
          \/ \E a \in PartnerConfigureArgs : PartnerConfigure(a)
          \/ \E r \in ModuleRequests, net \in ModuleNet : Generate(r, net)
          \/ \E name \in SignatureOperations, k \in SignatureKwargs, net \in ModuleNet :
                SignatureRequest(name, k, net)
          \/ \E name \in SignDocumentOperations, net \in ModuleNet : SignDocumentRequest(name, net)
          \/ \E net \in {"200", "200-not-json", "404"}, storage \in DownloadBehaviours :
                Download(net, storage)
          \/ \E method \in TransportMethods, net \in NetBehaviours : TransportRequest(method, net)
          \/ \E operation \in PartnerOperations :
                \E k \in PartnerKwargs(operation), net \in ModuleNet : PartnerRequest(operation, k, net)
    \/ Return

SpecModules == Init /\ [][NextModules]_vars

(***************************************************************************)
(* TurboPartner called from several threads                                *)
(***************************************************************************)
\* the configurations of two partners, and a call without arguments
ThreadConfigureArgs ==
    {[partner_api_key |-> PyStr("TDXP-test-key"), partner_id |-> PyStr("test-partner-id"),
      base_url |-> DefaultBaseUrl],
     [partner_api_key |-> PyStr("TDXP-other-key"), partner_id |-> PyStr("other-partner-id"),
      base_url |-> DefaultBaseUrl],
     [partner_api_key |-> PyNone, partner_id |-> PyNone, base_url |-> DefaultBaseUrl]}

CreateOrganization == CHOOSE operation \in PartnerOperations : operation.name = "create_organization"

ThreadNet == {"200", "404"}

\* configure, first statement: `cls._client = PartnerHttpClient(...)`; the
\* constructor touches no shared attribute, the store is the step
ConfigureAssignClient(t, a) ==
    LET made == PartnerHttpClient_init(environ, a)
    IN  /\ threads[t].pc = "idle"
        /\ partnerClient' = IF made.ok THEN made.client ELSE partnerClient
        /\ threads' = [threads EXCEPT ![t] =
                          IF made.ok THEN [IdleThread EXCEPT !.pc = "configure: _client assigned"]
                          ELSE [IdleThread EXCEPT !.pc = "raised", !.outcome = made.error]]
        /\ UNCHANGED <<environ, tplClient, signClient, partnerId, op, arg, calls, outcome>>

\* configure, second statement, right-hand side: `cls._client.partner_id`
\* read from the class attribute as it is now
ConfigureReadPartnerId(t) ==
    /\ threads[t].pc = "configure: _client assigned"
    /\ threads' = [threads EXCEPT ![t].pc = "configure: partner_id read",
                                  ![t].id = partnerClient.partner_id]
    /\ UNCHANGED <<environ, tplClient, signClient, partnerClient, partnerId, op, arg, calls, outcome>>

\* configure, second statement, the store: `cls._partner_id = ...`
ConfigureAssignPartnerId(t) ==
    /\ threads[t].pc = "configure: partner_id read"
    /\ partnerId' = threads[t].id
    /\ threads' = [threads EXCEPT ![t] = [IdleThread EXCEPT !.pc = "returned", !.outcome = Returned(PyNone)]]
    /\ UNCHANGED <<environ, tplClient, signClient, partnerClient, op, arg, calls, outcome>>

\* create_organization, `client = cls._get_client()`
RequestGetClient(t) ==
    LET got == get_client("TurboPartner", partnerClient)
    IN  /\ threads[t].pc = "idle"
        /\ threads' = [threads EXCEPT ![t] =
                          IF got.ok THEN [IdleThread EXCEPT !.pc = "request: client read", !.client = partnerClient]
                          ELSE [IdleThread EXCEPT !.pc = "raised", !.outcome = got.error]]
        /\ UNCHANGED <<environ, tplClient, signClient, partnerClient, partnerId, op, arg, calls, outcome>>

\* create_organization, `await client.post(f"{cls._base_path()}/organization",
\* data=body)`: the path is built from the class attribute as it is now, the
\* request is sent by the client read before
RequestPost(t, net) ==
    LET run == partner_request(threads[t].client, partnerId, CreateOrganization,
                               "name" :> PartnerArgument["name"], net)
    IN  /\ threads[t].pc = "request: client read"
        /\ calls' = run.calls
        /\ threads' = [threads EXCEPT ![t] = [IdleThread EXCEPT !.pc = "returned", !.outcome = run.outcome]]
        /\ UNCHANGED <<environ, tplClient, signClient, partnerClient, partnerId, op, arg, outcome>>

\* the operation of the thread has returned or raised
ThreadReturn(t) ==
    /\ threads[t].pc \in {"returned", "raised"}
    /\ threads' = [threads EXCEPT ![t] = IdleThread]
    /\ UNCHANGED <<environ, tplClient, signClient, partnerClient, partnerId, op, arg, calls, outcome>>

\* any thread takes its next step
NextThreads ==
    \E t \in Threads :
       \/ \E a \in ThreadConfigureArgs : ConfigureAssignClient(t, a)
       \/ ConfigureReadPartnerId(t)
       \/ ConfigureAssignPartnerId(t)
       \/ RequestGetClient(t)
       \/ \E net \in ThreadNet : RequestPost(t, net)
       \/ ThreadReturn(t)

SpecThreads == Init /\ [][NextThreads]_vars

(***************************************************************************)
(* Properties of generate                                                  *)
(***************************************************************************)
IsGenerate == op = "TurboTemplate.generate"

Configured(client) == client.kind # "None"

\* the request generate was given, and the body of the post it made
RequestVariables == arg["variables"]

SentBody == calls[1].body

\* mimeType absent or empty, stated on the input alone
LacksMimeType(v) == "mimeType" \notin DOMAIN v \/ v["mimeType"] = PyStr("") \/ v["mimeType"] = PyNone

LacksText(v, k) == k \notin DOMAIN v \/ v[k] = PyStr("") \/ v[k] = PyNone

FirstLacking(variables) ==
    CHOOSE i \in 1..Len(variables) :
        LacksMimeType(variables[i]) /\ \A j \in 1..(i - 1) : ~LacksMimeType(variables[j])

\* C1: a configured generate given a request with a variable whose mimeType
\* is absent or empty (at any position) fails with the local mimeType error
\* naming that variable's placeholder, and makes no transport call.
C1_MissingMimeTypeRejected ==
    (IsGenerate /\ Configured(tplClient)
       /\ \E i \in 1..Len(RequestVariables) : LacksMimeType(RequestVariables[i]))
    => /\ calls = <<>>
       /\ outcome.kind = "error"
       /\ outcome.err = "ValueError"
       /\ outcome.about = Get(RequestVariables[FirstLacking(RequestVariables)], "placeholder")

\* C1 witness: the second variable lacks mimeType, the first is valid
C1_Witness ==
    /\ IsGenerate /\ Configured(tplClient)
    /\ Len(RequestVariables) = 2
    /\ ~LacksMimeType(RequestVariables[1])
    /\ LacksMimeType(RequestVariables[2])
    /\ outcome.err = "ValueError"
    /\ outcome.about = PyStr("{b}")
    /\ calls = <<>>

\* C2: a successful generate has called post exactly once, with path
\* /v1/deliverable and the body as the `data` argument, and returns the
\* transport's response.
C2_SuccessfulGeneratePostsData ==
    (IsGenerate /\ outcome.kind = "ok")
    => /\ Len(calls) = 1
       /\ calls[1].method = "post"
       /\ calls[1].path = "/v1/deliverable"
       /\ calls[1].kw = "data"
       /\ outcome = calls[1].result

\* C3: when a variable supplies both value and text, the emitted record
\* carries value and not text; text is copied only when there is no value key.
C3_ValueWinsOverText ==
    (IsGenerate /\ calls # <<>>)
    => \A i \in 1..Len(RequestVariables) :
          LET v == RequestVariables[i]
              r == SentBody["variables"][i]
          IN  /\ "value" \in DOMAIN v => ("value" \in DOMAIN r /\ "text" \notin DOMAIN r)
              /\ "text" \in DOMAIN r <=> ("text" \in DOMAIN v /\ "value" \notin DOMAIN v)

\* C4: every variable record in a body handed to the transport has a
\* non-empty placeholder, name and mimeType.
C4_EmittedRecordsComplete ==
    (IsGenerate /\ calls # <<>>)
    => \A i \in 1..Len(SentBody["variables"]) :
          LET r == SentBody["variables"][i]
          IN  ~LacksText(r, "placeholder") /\ ~LacksText(r, "name") /\ ~LacksText(r, "mimeType")

OptionalVariableFields ==
    {"value", "usesAdvancedTemplatingEngine", "nestedInAdvancedTemplatingEngine",
     "allowRichTextInjection", "description", "defaultValue", "subvariables"}

\* C5: the emitted variables array has the length and order of the request's
\* variables, and record i carries each optional field exactly when input
\* variable i carries it, with the identical value (an explicit null stays
\* null, an absent field stays absent).
C5_OptionalFieldsForwarded ==
    (IsGenerate /\ calls # <<>>)
    => /\ Len(SentBody["variables"]) = Len(RequestVariables)
       /\ \A i \in 1..Len(RequestVariables) :
             LET v == RequestVariables[i]
                 r == SentBody["variables"][i]
             IN  /\ r["placeholder"] = Get(v, "placeholder")
                 /\ r["name"] = Get(v, "name")
                 /\ r["mimeType"] = v["mimeType"]
                 /\ \A k \in OptionalVariableFields :
                       /\ k \in DOMAIN r <=> k \in DOMAIN v
                       /\ k \in DOMAIN v => r[k] = v[k]

\* C5 witness: two variables sent, the first with an explicit null value and
\* no flags, the second with every optional flag
C5_Witness ==
    /\ IsGenerate /\ Len(calls) = 1
    /\ Len(SentBody["variables"]) = 2
    /\ "value" \in DOMAIN SentBody["variables"][1]
    /\ SentBody["variables"][1]["value"] = PyNone
    /\ "usesAdvancedTemplatingEngine" \notin DOMAIN SentBody["variables"][1]
    /\ OptionalVariableFields \subseteq DOMAIN SentBody["variables"][2]
    /\ SentBody["variables"][2]["usesAdvancedTemplatingEngine"] = PyBool(TRUE)

OptionalRequestFields == {"name", "description", "replaceFonts", "defaultFont", "metadata"}

C7_TransportFailureSurfacesOnce ==
    (IsGenerate /\ calls # <<>> /\ calls[1].result.kind = "error")
    => /\ Len(calls) = 1
       /\ outcome = calls[1].result

\* C7 witness: the transport raised and generate's caller got that error
C7_Witness ==
    /\ IsGenerate /\ Len(calls) = 1
    /\ calls[1].result.kind = "error"
    /\ calls[1].result.err = "Exception"
    /\ outcome.err = "Exception"

(***************************************************************************)
(* Properties of validate_variable                                         *)
(***************************************************************************)
IsValidate == op = "TurboTemplate.validate_variable"

ValidationResult == outcome.value

Contains(xs, x) == \E i \in 1..Len(xs) : xs[i] = x

\* the two error conditions, stated on the input alone
PlaceholderOrNameMissing(v) == LacksText(v, "placeholder") \/ LacksText(v, "name")

ImageWithoutString(v) ==
    /\ "mimeType" \in DOMAIN v
    /\ v["mimeType"] = PyStr("image")
    /\ ("value" \notin DOMAIN v \/ v["value"].ty # "str")

\* C9: isValid is true exactly when no error was recorded; errors is None
\* when there are no errors and warnings is None when there are no warnings,
\* never an empty list; warnings do not make isValid false.
C9_ValidationResultShape ==
    IsValidate
    => LET r == ValidationResult
       IN  /\ r.isValid <=> ~(PlaceholderOrNameMissing(arg) \/ ImageWithoutString(arg))
           /\ r.isValid <=> r.errors.isNone
           /\ r.errors.isNone <=> r.errors.items = <<>>
           /\ r.warnings.isNone <=> r.warnings.items = <<>>

\* C9 witness: a list value without mimeType is valid with warnings and no errors
C9_Witness ==
    /\ IsValidate
    /\ ValidationResult.isValid
    /\ ValidationResult.errors.isNone
    /\ ~ValidationResult.warnings.isNone
    /\ Len(ValidationResult.warnings.items) = 2

\* C10: the 'must have both placeholder and name' error is recorded exactly
\* when placeholder is absent/empty or name is absent/empty.
C10_PlaceholderAndNameRequired ==
    IsValidate
    => (Contains(ValidationResult.errors.items,
                 "Variable must have both \"placeholder\" and \"name\" properties")
        <=> PlaceholderOrNameMissing(arg))

\* C10 witness: a variable carrying placeholder but no name is invalid
C10_Witness ==
    /\ IsValidate
    /\ ~LacksText(arg, "placeholder")
    /\ "name" \notin DOMAIN arg
    /\ ~ValidationResult.isValid
    /\ ValidationResult.errors.items
         = <<"Variable must have both \"placeholder\" and \"name\" properties">>

\* what the input says about its value and its mimeType
HasValueOfType(v, types) == "value" \in DOMAIN v /\ v["value"].ty \in types

MimeTypeIs(v, m) == "mimeType" \in DOMAIN v /\ v["mimeType"] = PyStr(m)

HasNeitherValueNorText(v) == "value" \notin DOMAIN v /\ "text" \notin DOMAIN v

\* C11: with mimeType 'image' the image error is recorded exactly when value
\* is not a string, which includes a value that is absent or null (the
\* variable is then invalid); without mimeType 'image' the error is never
\* recorded, and a variable carrying placeholder and name but neither value
\* nor text is valid.
C11_ImageErrorIffValueNotString ==
    IsValidate
    => LET r == ValidationResult
           imageError == Contains(r.errors.items, "Image variables must have a string value (URL or base64)")
       IN  /\ MimeTypeIs(arg, "image") => (imageError <=> ~HasValueOfType(arg, {"str"}))
           /\ (MimeTypeIs(arg, "image") /\ ~HasValueOfType(arg, {"str"})) => ~r.isValid
           /\ ~MimeTypeIs(arg, "image") => ~imageError
           /\ (~MimeTypeIs(arg, "image") /\ HasNeitherValueNorText(arg) /\ ~PlaceholderOrNameMissing(arg))
              => r.isValid

\* C11 witness: an image variable without a value is invalid with the image error
C11_Witness ==
    /\ IsValidate
    /\ MimeTypeIs(arg, "image")
    /\ "value" \notin DOMAIN arg
    /\ ~PlaceholderOrNameMissing(arg)
    /\ ~ValidationResult.isValid
    /\ ValidationResult.errors.items = <<"Image variables must have a string value (URL or base64)">>

\* C12: the array warning is among the warnings exactly when value is a list
\* and mimeType is not 'json'; a list value alone never makes the variable
\* invalid.
C12_ArrayWarningIffListNotJson ==
    IsValidate
    => LET r == ValidationResult
           arrayWarning == Contains(r.warnings.items, "Array values should use mimeType: \"json\"")
       IN  /\ arrayWarning <=> (HasValueOfType(arg, {"list"}) /\ ~MimeTypeIs(arg, "json"))
           /\ (HasValueOfType(arg, {"list"}) /\ ~PlaceholderOrNameMissing(arg) /\ ~MimeTypeIs(arg, "image"))
              => (r.isValid /\ r.errors.isNone)

\* C12 witness: a list under mimeType 'text' is valid with the array warning alone
C12_Witness ==
    /\ IsValidate
    /\ HasValueOfType(arg, {"list"})
    /\ MimeTypeIs(arg, "text")
    /\ ValidationResult.isValid
    /\ ValidationResult.errors.isNone
    /\ ValidationResult.warnings.items = <<"Array values should use mimeType: \"json\"">>

\* C13: the complex-object warning is among the warnings exactly when value
\* is a mapping or a list and mimeType is absent or empty; a list without
\* mimeType gets the complex-object warning followed by the array warning.
C13_ComplexWarningIffNoMimeType ==
    IsValidate
    => LET r == ValidationResult
           complexWarning ==
               Contains(r.warnings.items, "Complex objects should explicitly set mimeType to \"json\"")
       IN  /\ complexWarning <=> (HasValueOfType(arg, {"dict", "list"}) /\ LacksMimeType(arg))
           /\ (HasValueOfType(arg, {"list"}) /\ LacksMimeType(arg))
              => r.warnings.items = <<"Complex objects should explicitly set mimeType to \"json\"",
                                      "Array values should use mimeType: \"json\"">>

\* C13 witness: a mapping with an empty mimeType gets the complex-object warning alone
C13_Witness ==
    /\ IsValidate
    /\ HasValueOfType(arg, {"dict"})
    /\ MimeTypeIs(arg, "")
    /\ ValidationResult.warnings.items = <<"Complex objects should explicitly set mimeType to \"json\"">>

\* C14: every check runs whatever the earlier checks found: the errors are
\* what the placeholder/name check reports followed by what the image check
\* reports, the warnings what the complex-object check reports followed by
\* what the array check reports.
C14_ChecksAreIndependent ==
    IsValidate
    => LET r == ValidationResult
       IN  /\ r.errors.items
                = (IF PlaceholderOrNameMissing(arg)
                   THEN <<"Variable must have both \"placeholder\" and \"name\" properties">> ELSE <<>>)
                  \o (IF ImageWithoutString(arg)
                      THEN <<"Image variables must have a string value (URL or base64)">> ELSE <<>>)
           /\ r.warnings.items
                = (IF HasValueOfType(arg, {"dict", "list"}) /\ LacksMimeType(arg)
                   THEN <<"Complex objects should explicitly set mimeType to \"json\"">> ELSE <<>>)
                  \o (IF HasValueOfType(arg, {"list"}) /\ ~MimeTypeIs(arg, "json")
                      THEN <<"Array values should use mimeType: \"json\"">> ELSE <<>>)

\* C14 witness: no placeholder, mimeType 'image' and a numeric value give
\* both errors, placeholder/name first
C14_Witness ==
    /\ IsValidate
    /\ "placeholder" \notin DOMAIN arg
    /\ MimeTypeIs(arg, "image")
    /\ HasValueOfType(arg, {"int"})
    /\ ValidationResult.errors.items
         = <<"Variable must have both \"placeholder\" and \"name\" properties",
             "Image variables must have a string value (URL or base64)">>

(***************************************************************************)
(* validate_variable and generate on the same variable                     *)
(***************************************************************************)
\* placeholder, name and mimeType are there and non-empty, value and text are not
CompleteWithoutPayload(v) ==
    /\ ~PlaceholderOrNameMissing(v)
    /\ ~LacksMimeType(v)
    /\ HasNeitherValueNorText(v)

\* what generate does with variables that carry neither value nor text: it
\* calls post once, and their records have neither key
GenerateAcceptsWithoutPayload ==
    (IsGenerate /\ Configured(tplClient)
       /\ \A i \in 1..Len(RequestVariables) : ~LacksMimeType(RequestVariables[i]))
    => /\ Len(calls) = 1
       /\ Len(SentBody["variables"]) = Len(RequestVariables)
       /\ ~(outcome.kind = "error" /\ outcome.err = "ValueError")
       /\ \A i \in 1..Len(RequestVariables) :
             CompleteWithoutPayload(RequestVariables[i])
             => ("value" \notin DOMAIN SentBody["variables"][i]
                 /\ "text" \notin DOMAIN SentBody["variables"][i])

\* C15 as stated: a variable with non-empty placeholder, name and mimeType
\* and neither value nor text is valid for validate_variable, and generate
\* accepts it, emitting a record with neither key.
C15_NoPayloadValidAndAccepted ==
    /\ (IsValidate /\ CompleteWithoutPayload(arg))
       => (ValidationResult.isValid /\ ValidationResult.errors.isNone)
    /\ GenerateAcceptsWithoutPayload

\* C15 (amended): the two agree unless mimeType is 'image': such a variable
\* with a mimeType other than 'image' is valid for validate_variable, with
\* mimeType 'image' it is invalid with the image error alone, and generate
\* accepts it under every mimeType, emitting a record with neither key.
C15_NoPayloadValidUnlessImage ==
    /\ (IsValidate /\ CompleteWithoutPayload(arg) /\ ~MimeTypeIs(arg, "image"))
       => (ValidationResult.isValid /\ ValidationResult.errors.isNone)
    /\ (IsValidate /\ CompleteWithoutPayload(arg) /\ MimeTypeIs(arg, "image"))
       => (~ValidationResult.isValid
           /\ ValidationResult.errors.items
                = <<"Image variables must have a string value (URL or base64)">>)
    /\ GenerateAcceptsWithoutPayload

\* C15 witness: generate has posted an image variable that carries neither
\* value nor text, and the transport answered
C15_Witness ==
    /\ IsGenerate
    /\ Len(RequestVariables) = 1
    /\ CompleteWithoutPayload(RequestVariables[1])
    /\ MimeTypeIs(RequestVariables[1], "image")
    /\ Len(calls) = 1
    /\ DOMAIN SentBody["variables"][1] = {"placeholder", "name", "mimeType"}
    /\ outcome.kind = "ok"

(***************************************************************************)
(* Properties of the variable constructors                                 *)
(***************************************************************************)
EmptyArgument(x) == x = PyStr("") \/ x = PyNone

FailsWith(message) ==
    /\ outcome.kind = "error"
    /\ outcome.err = "ValueError"
    /\ outcome.about = PyStr(message)

ReturnsRecord(keys) == outcome.kind = "ok" /\ DOMAIN outcome.value = keys

\* C16: create_simple_variable returns a record with exactly placeholder,
\* name, value and mimeType, equal to its arguments, when placeholder and
\* name are non-empty and mime_type is 'text' or 'html'; otherwise it fails
\* with the first failing check in the order placeholder, name, mime_type
\* empty, mime_type not allowed; the value is never checked.
C16_SimpleVariable ==
    op = "TurboTemplate.create_simple_variable"
    => IF EmptyArgument(arg.placeholder) THEN FailsWith("placeholder is required")
       ELSE IF EmptyArgument(arg.name) THEN FailsWith("name is required")
       ELSE IF EmptyArgument(arg.mime_type) THEN FailsWith("mime_type is required")
       ELSE IF arg.mime_type \notin {PyStr("text"), PyStr("html")}
       THEN FailsWith("mime_type must be 'text' or 'html'")
       ELSE /\ ReturnsRecord({"placeholder", "name", "value", "mimeType"})
            /\ outcome.value["placeholder"] = arg.placeholder
            /\ outcome.value["name"] = arg.name
            /\ outcome.value["value"] = arg.value
            /\ outcome.value["mimeType"] = arg.mime_type

\* C16 witness: the value 0 under mime_type 'html' is returned as it is
C16_Witness ==
    /\ op = "TurboTemplate.create_simple_variable"
    /\ arg.value = PyInt("0")
    /\ arg.mime_type = PyStr("html")
    /\ ReturnsRecord({"placeholder", "name", "value", "mimeType"})
    /\ outcome.value["value"] = PyInt("0")

\* C17: create_advanced_engine_variable, create_loop_variable and
\* create_conditional_variable fail naming placeholder (first) or name when
\* that string is empty, and otherwise return, for any value, a record with
\* exactly placeholder, name, the value as given, mimeType 'json' and
\* usesAdvancedTemplatingEngine true.
C17_AdvancedVariables ==
    op \in {"TurboTemplate.create_advanced_engine_variable", "TurboTemplate.create_loop_variable",
            "TurboTemplate.create_conditional_variable"}
    => IF EmptyArgument(arg.placeholder) THEN FailsWith("placeholder is required")
       ELSE IF EmptyArgument(arg.name) THEN FailsWith("name is required")
       ELSE /\ ReturnsRecord({"placeholder", "name", "value", "mimeType", "usesAdvancedTemplatingEngine"})
            /\ outcome.value["placeholder"] = arg.placeholder
            /\ outcome.value["name"] = arg.name
            /\ outcome.value["value"] = arg.value
            /\ outcome.value["mimeType"] = PyStr("json")
            /\ outcome.value["usesAdvancedTemplatingEngine"] = PyBool(TRUE)

\* C17 witness: create_loop_variable given an empty list
C17_Witness ==
    /\ op = "TurboTemplate.create_loop_variable"
    /\ arg.value = PyList("")
    /\ outcome.kind = "ok"
    /\ outcome.value["value"] = PyList("")
    /\ outcome.value["mimeType"] = PyStr("json")

\* C18: create_image_variable returns placeholder, name, value = the string
\* argument and mimeType 'image' for a non-empty string payload, fails when
\* the string is empty, and rejects every payload that is not a string.
C18_ImagePayloadIsString ==
    (op = "TurboTemplate.create_image_variable"
       /\ ~EmptyArgument(arg.placeholder) /\ ~EmptyArgument(arg.name))
    => /\ (arg.image_url.ty = "str" /\ arg.image_url # PyStr(""))
          => /\ ReturnsRecord({"placeholder", "name", "value", "mimeType"})
             /\ outcome.value["placeholder"] = arg.placeholder
             /\ outcome.value["name"] = arg.name
             /\ outcome.value["value"] = arg.image_url
             /\ outcome.value["mimeType"] = PyStr("image")
       /\ arg.image_url = PyStr("") => FailsWith("image_url is required")
       /\ arg.image_url.ty # "str" => outcome.kind = "error"

\* the mimeType a constructor's record should carry, given its arguments
ConstructorMimeType ==
    CASE op = "TurboTemplate.create_simple_variable" -> arg.mime_type
      [] op = "TurboTemplate.create_image_variable"  -> PyStr("image")
      [] OTHER                                       -> PyStr("json")

ConstructorValue ==
    IF op = "TurboTemplate.create_image_variable" THEN arg.image_url ELSE arg.value

\* C19: when a configured generate is given the record a constructor has
\* returned, it does not reject it, and the record it hands to post carries
\* the placeholder, name, value and mimeType of the constructor's arguments;
\* the constructor's record is the same after the call.
C19_ConstructorRoundTrip ==
    [][(op \in ConstructorOperations /\ outcome.kind = "ok" /\ op' = "TurboTemplate.generate"
          /\ Configured(tplClient))
       => /\ Len(calls') = 1
          /\ ~(outcome'.kind = "error" /\ outcome'.err = "ValueError")
          /\ Len(calls'[1].body["variables"]) = 1
          /\ LET r == calls'[1].body["variables"][1]
             IN  /\ {"placeholder", "name", "value", "mimeType"} \subseteq DOMAIN r
                 /\ r["placeholder"] = arg.placeholder
                 /\ r["name"] = arg.name
                 /\ r["value"] = ConstructorValue
                 /\ r["mimeType"] = ConstructorMimeType
          /\ arg'["variables"] = <<outcome.value>>]_vars

\* C19 witness: generate has posted the record of a conditional variable
\* whose value is None, and the transport answered
C19_Witness ==
    /\ IsGenerate
    /\ outcome.kind = "ok"
    /\ Len(calls) = 1
    /\ RequestVariables
         = <<("placeholder" :> PyStr("{a}")) @@ ("name" :> PyStr("a")) @@ ("value" :> PyNone)
             @@ ("mimeType" :> PyStr("json")) @@ ("usesAdvancedTemplatingEngine" :> PyBool(TRUE))>>
    /\ SentBody["variables"] = RequestVariables

(***************************************************************************)
(* Properties of detect_file_type                                          *)
(***************************************************************************)
IsDetect == op \in {"detect_file_type", "detect_file_type (again)"}

StartsWith(bytes, prefix) ==
    Len(bytes) >= Len(prefix) /\ \A i \in 1..Len(prefix) : bytes[i] = prefix[i]

\* C20: detect_file_type returns for every buffer, and returns
\* (application/octet-stream, bin) exactly when the buffer is shorter than 4
\* bytes or starts with neither '%PDF' nor 'PK'; a 2- or 3-byte buffer
\* starting with 'PK' is octet-stream.
C20_OctetStreamIffShortOrUnknown ==
    IsDetect
    => /\ outcome.kind = "ok"
       /\ outcome.value = <<"application/octet-stream", "bin">>
          <=> (Len(arg) < 4
               \/ (~StartsWith(arg, <<"%", "P", "D", "F">>) /\ ~StartsWith(arg, <<"P", "K">>)))

\* C20 witness: the three bytes 'PKx' are octet-stream
C20_Witness ==
    /\ IsDetect
    /\ arg = <<"P", "K", "x">>
    /\ outcome.kind = "ok"
    /\ outcome.value = <<"application/octet-stream", "bin">>

\* the number of bytes detect_file_type looks at
Searched(bytes) == IF Len(bytes) < 2000 THEN Len(bytes) ELSE 2000

\* the marker's bytes stand next to each other within the searched bytes
RawOccurs(marker, bytes) ==
    \E i \in 1..(Searched(bytes) - Len(marker) + 1) :
       \A j \in 1..Len(marker) : bytes[i + j - 1] = marker[j]

\* byte i of the searched bytes gives no character when they are decoded
\* with undecodable sequences ignored: an invalid byte, a continuation byte
\* without its lead byte, a lead byte without its continuation byte
GivesNoCharacter(bytes, i) ==
    \/ bytes[i] = "FF"
    \/ (bytes[i] = "A9" /\ ~(i > 1 /\ bytes[i - 1] = "C3"))
    \/ (bytes[i] = "C3" /\ ~(i < Searched(bytes) /\ bytes[i + 1] = "A9"))

\* the next byte after byte i that gives a character, 0 when there is none
NextCharacter(bytes, i) ==
    IF \E q \in (i + 1)..Searched(bytes) : ~GivesNoCharacter(bytes, q)
    THEN CHOOSE q \in (i + 1)..Searched(bytes) :
            ~GivesNoCharacter(bytes, q) /\ \A r \in (i + 1)..(q - 1) : GivesNoCharacter(bytes, r)
    ELSE 0

\* the marker from its character j on continues right after byte i
RECURSIVE ContinuesAfter(_, _, _, _)
ContinuesAfter(marker, j, bytes, i) ==
    IF j > Len(marker) THEN TRUE
    ELSE LET q == NextCharacter(bytes, i)
         IN  q # 0 /\ bytes[q] = marker[j] /\ ContinuesAfter(marker, j + 1, bytes, q)

\* the marker occurs in the searched bytes as the decoder reads them: its
\* characters follow each other with nothing but ignored bytes in between
DecodedOccurs(marker, bytes) ==
    \E i \in {k \in 1..Searched(bytes) : bytes[k] = marker[1]} : ContinuesAfter(marker, 2, bytes, i)

IsArchive(bytes) == Len(bytes) >= 4 /\ StartsWith(bytes, <<"P", "K">>)

C27_DecisionEqualsByteSearch ==
    (IsDetect /\ IsArchive(arg))
    => outcome.value
         = (IF RawOccurs(<<"p", "p", "t", "/">>, arg)
            THEN <<"application/vnd.openxmlformats-officedocument.presentationml.presentation", "pptx">>
            ELSE <<"application/vnd.openxmlformats-officedocument.wordprocessingml.document", "docx">>)

(***************************************************************************)
(* Properties of the module configuration                                  *)
(***************************************************************************)
TemplateRequestNames == {"TurboTemplate.generate"}

SignRequestNames ==
    {"TurboSign.create_signature_review_link", "TurboSign.send_signature", "TurboSign.get_status",
     "TurboSign.download", "TurboSign.void_document", "TurboSign.resend_email",
     "TurboSign.get_audit_trail"}

PartnerRequestNames == {"TurboPartner." \o operation.name : operation \in PartnerOperations}

NotConfiguredError(moduleName) ==
    /\ calls = <<>>
    /\ outcome.kind = "error"
    /\ outcome.err = "RuntimeError"
    /\ outcome.about = PyStr(moduleName \o " not configured")

\* C23: constructing the client with an API key and an org_id but no
\* sender_email, neither as argument nor in the environment, succeeds, and
\* get_sender_config of that client returns sender_email None.
C23_SenderEmailOptional ==
    (op = "TurboTemplate.configure"
       /\ arg.api_key # PyNone /\ arg.org_id # PyNone
       /\ arg.sender_email = PyNone /\ "TURBODOCX_SENDER_EMAIL" \notin DOMAIN environ)
    => /\ outcome.kind = "ok"
       /\ tplClient.kind = "HttpClient"
       /\ tplClient.sender_email = PyNone

IsSignatureRequest == op \in {"TurboSign.create_signature_review_link", "TurboSign.send_signature"}

\* the request-level value when it is non-empty, the configured one otherwise
Resolved(requested, configured) ==
    IF requested # PyNone /\ requested # PyStr("") THEN requested ELSE configured

\* C24: a signature request, on the upload path and on the JSON path, sends
\* as senderEmail the request's sender_email when non-empty and the
\* configured one otherwise, resolves senderName the same way on its own,
\* leaves the senderName key out exactly when both names are empty, and reads
\* get_sender_config once.
C24_SenderResolution ==
    (IsSignatureRequest /\ signClient.kind # "None")
    => /\ Len(calls) = 2
       /\ calls[1].method = "get_sender_config"
       /\ calls[2].method = (IF arg.file # PyNone THEN "upload_file" ELSE "post")
       /\ LET body == calls[2].body
              name == Resolved(arg.sender_name, signClient.sender_name)
          IN  /\ "senderEmail" \in DOMAIN body
              /\ body["senderEmail"] = Resolved(arg.sender_email, signClient.sender_email)
              /\ "senderName" \in DOMAIN body <=> (name # PyNone /\ name # PyStr(""))
              /\ "senderName" \in DOMAIN body => body["senderName"] = name

\* C24 witness: an upload whose request overrides the email and not the name
C24_Witness ==
    /\ op = "TurboSign.send_signature"
    /\ Len(calls) = 2
    /\ calls[2].method = "upload_file"
    /\ arg.sender_email = PyStr("request@company.com")
    /\ arg.sender_name = PyNone
    /\ calls[2].body["senderEmail"] = PyStr("request@company.com")
    /\ "senderName" \in DOMAIN calls[2].body
    /\ calls[2].body["senderName"] = PyStr("Env Name")

\* C25: void_document posts {reason} to /turbosign/documents/{id}/void
\* exactly once and, when the backend answers with an empty response,
\* returns success True and the message 'Document has been voided
\* successfully'.
C25_VoidDocumentResult ==
    (op = "TurboSign.void_document" /\ signClient.kind # "None")
    => /\ Len(calls) = 1
       /\ calls[1].method = "post"
       /\ calls[1].path = "/turbosign/documents/" \o arg["document_id"].v \o "/void"
       /\ calls[1].kw = "data"
       /\ calls[1].body = ("reason" :> arg["reason"])
       /\ calls[1].net = "200-empty"
          => /\ outcome.kind = "ok"
             /\ DOMAIN outcome.value = {"success", "message"}
             /\ outcome.value["success"] = PyBool(TRUE)
             /\ outcome.value["message"] = PyStr("Document has been voided successfully")

\* the error class of a status
StatusError(status) ==
    CASE status = "400" -> "ValidationError"
      [] status = "401" -> "AuthenticationError"
      [] status = "404" -> "NotFoundError"
      [] status = "429" -> "RateLimitError"
      [] OTHER          -> "TurboDocxError"

\* C26: for get, post, patch, delete and upload_file of HttpClient, a
\* non-success HTTP response surfaces as the error class of its status with
\* status_code set, never as NetworkError; NetworkError is raised only when
\* there is no such response.
C26_StatusErrorsSurface ==
    \A i \in 1..Len(calls) :
       (calls[i].client.kind = "HttpClient"
          /\ calls[i].method \in {"get", "post", "patch", "delete", "upload_file"})
       => /\ calls[i].net \in {"400", "401", "404", "429", "500"}
             => /\ calls[i].result.kind = "error"
                /\ calls[i].result.err = StatusError(calls[i].net)
                /\ calls[i].result.about = PyInt(calls[i].net)
          /\ (calls[i].result.kind = "error" /\ calls[i].result.err = "NetworkError")
             => calls[i].net \notin {"400", "401", "404", "429", "500"}

\* C8: while a module has not been successfully configured, every request
\* operation of that module raises RuntimeError 'not configured' whatever
\* its arguments, and makes no transport call; an unconfigured generate
\* given a variable without mimeType raises the not-configured error.
C8_UnconfiguredModuleRaises ==
    /\ (op \in TemplateRequestNames /\ tplClient.kind = "None") => NotConfiguredError("TurboTemplate")
    /\ (op \in SignRequestNames /\ signClient.kind = "None") => NotConfiguredError("TurboSign")
    /\ (op \in PartnerRequestNames /\ partnerClient.kind = "None") => NotConfiguredError("TurboPartner")

\* C8 witness: an unconfigured generate given a variable without mimeType
C8_Witness ==
    /\ IsGenerate
    /\ tplClient.kind = "None"
    /\ Len(RequestVariables) = 1
    /\ LacksMimeType(RequestVariables[1])
    /\ outcome.err = "RuntimeError"
    /\ calls = <<>>


\* C28: validate_variable never accepts what generate rejects: when the
\* variable validate_variable has just returned isValid = True for is handed
\* to a configured generate, generate does not fail on the variable (it
\* raises no ValueError)
C28_ValidNeverRejected ==
    [][(op = "TurboTemplate.validate_variable"
          /\ outcome.kind = "ok" /\ outcome.value.isValid
          /\ op' = "TurboTemplate.generate"
          /\ arg'["variables"] = <<arg>>
          /\ tplClient.kind # "None")
       => ~(outcome'.kind = "error" /\ outcome'.err = "ValueError")]_vars


\* what follows the base path in the path of a TurboPartner request
PartnerTails ==
    {operation.suffix
       \o build_query_string([i \in 1..Len(operation.query) |->
                                <<operation.query[i][1], Get(k, operation.query[i][2])>>]) :
       operation \in PartnerOperations, k \in UNION {PartnerKwargs(o) : o \in PartnerOperations}}

\* the request was sent by a partner client to a path under /partner/{the
\* partner_id of that client}
UnderOwnPartner(call) ==
    call.client.kind = "PartnerHttpClient"
    => \E tail \in PartnerTails : call.path = "/partner/" \o call.client.partner_id.v \o tail

\* C29: in every state reachable by TurboPartner.configure calls,
\* _partner_id equals the partner_id of _client (both unset before the first
\* successful configure); a configure call that fails changes neither of
\* them; every request path is prefixed with /partner/{partner_id of the
\* client that sends it}
C29_PartnerIdOfClient ==
    /\ [](/\ partnerClient.kind = "None" => partnerId = PyNone
          /\ partnerClient.kind # "None" => partnerId = partnerClient.partner_id
          /\ op \in PartnerRequestNames
             => /\ \A i \in 1..Len(calls) : calls[i].client = partnerClient /\ UnderOwnPartner(calls[i])
                /\ partnerClient.kind # "None" => Len(calls) = 1)
    /\ [][(op' = "TurboPartner.configure" /\ outcome'.kind = "error")
          => (partnerClient' = partnerClient /\ partnerId' = partnerId)]_vars

\* a configure call has failed after a successful one for the second partner
C29_Witness ==
    /\ op = "TurboPartner.configure"
    /\ outcome.kind = "error"
    /\ partnerClient.kind = "PartnerHttpClient"
    /\ partnerId = PyStr("other-partner-id")

\* C30: under any interleaving of configure calls and request operations of
\* concurrent threads, every request is sent with the API key and the
\* /partner/{id} prefix of one and the same configuration
C30_OneConfigurationPerRequest ==
    \A i \in 1..Len(calls) :
       /\ UnderOwnPartner(calls[i])
       /\ calls[i].client.partner_api_key = PyStr("TDXP-other-key")
          => \E tail \in PartnerTails : calls[i].path = "/partner/other-partner-id" \o tail

====
